---- MODULE Spec2Model ----
(***************************************************************************)
(* Device scheduling and timeline consistency of the steelmaking           *)
(* simulation: the seeder (seeding/seeder.py), the device scheduler        *)
(* (scheduler.py), the heat planner (heat_planner.py) and the runtime      *)
(* processor (operation_processor.py), driven by the tick loop, with the   *)
(* side content of the operations: warnings, events and KPI statistics.    *)
(*                                                                         *)
(* Time is an integer number of time units; one unit stands for ten        *)
(* minutes of the simulation clock.  A null timestamp is NULL.             *)
(***************************************************************************)
EXTENDS Integers, Sequences, FiniteSets, TLC

NULL == -1

\* a null device_no
NoDevice == "none"

\* ProcessStatus (config/constants.py)
COMPLETED == 0
ACTIVE == 1
PENDING == 2
CANCELED == 3

\* Bounds of the model
RunSpanPast == 3       \* span_past of the seeder in Spec, in units
RunSpanFuture == 0     \* span_future of the seeder in Spec, in units
MaxHeats == 2          \* create_new_heat is not attempted beyond this many heats
MaxNow == 10           \* the clock stops advancing here
MaxStep == 1           \* largest advance of the clock from one tick to the next
SeedSpanPast == 8      \* span_past of the seeder in SpecSeed, in units
SeedSpanFuture == 0    \* span_future of the seeder in SpecSeed, in units
TrySpanPast == 4       \* span_past of the seeder in SpecTry, in units
TrySpanFuture == 0     \* span_future of the seeder in SpecTry, in units
QuietSpanPast == 2     \* span_past of the seeder in SpecQuiet, in units
QuietSpanFuture == 2   \* span_future of the seeder in SpecQuiet, in units
QuietStep == 4         \* largest advance of the clock between ticks in SpecQuiet
QuietMaxNow == 7       \* the clock stops advancing here in SpecQuiet
QuietMaxDuration == 6  \* max_operation_duration in SpecQuiet, in units
PoolSize == 2          \* devices of every stage in SpecPool
PoolMaxNow == 6        \* the clock stops advancing here in SpecPool
PoolMaxHeats == 3      \* create_new_heat is not attempted beyond this many heats in SpecPool
PoolMaxDuration == 3   \* max_operation_duration in SpecPool, in units
SideMaxNow == 6        \* the clock stops advancing here in SpecSide
SideMaxHeats == 2      \* create_new_heat is not attempted beyond this many heats in SpecSide
SideMaxWarnings == 2   \* max_warnings_per_operation in SpecSide
SideMaxDuration == 3   \* max_operation_duration in SpecSide, in units
SlotMaxStart == 4      \* latest start of a window in the tables of SpecSlot
SlotMaxLen == 2        \* longest window and most rows of a device there, longest duration of a call
SlotMaxDesired == 6    \* latest desired_start of a call in SpecSlot
SlotMaxSlack == 1      \* largest latest_start - desired_start of a call in SpecSlot
LiveMaxNow == 13        \* the clock stops advancing here in SpecLive
LiveSlack == 8          \* clock room that is left when a stalled row is judged: two advances of QuietStep
LiveMaxDuration == 3    \* max_operation_duration in SpecLive, in units
BackfillMaxWarnings == 1 \* max_warnings_per_operation in SpecBackfill
HostMaxNow == 6         \* the clock stops advancing here in SpecHost
ShareSpanPast == 3      \* span_past of the seeder in SpecShare, in units
ShareSpanFuture == 0    \* span_future of the seeder in SpecShare, in units

PROCESS_FLOW == <<"BOF", "LF", "CCM">>

\* EQUIPMENT (config/equipment.py)
EQUIPMENT ==
  [BOF |-> [proc_cd |-> "G12", devices |-> <<"G120", "G121", "G122">>],
   LF  |-> [proc_cd |-> "G13", devices |-> <<"G130", "G131", "G132">>],
   CCM |-> [proc_cd |-> "G16", devices |-> <<"G160", "G161", "G162">>]]

AllDevices ==
  UNION {{EQUIPMENT[p].devices[i] : i \in 1..Len(EQUIPMENT[p].devices)} : p \in {"BOF", "LF", "CCM"}}

Max2(a, b) == IF a >= b THEN a ELSE b
Min2(a, b) == IF a <= b THEN a ELSE b

\* a or b, for nullable timestamps
Coalesce(a, b) == IF a # NULL THEN a ELSE b

SeqToSet(s) == {s[i] : i \in 1..Len(s)}

VARIABLES
  ops,      \* the steelmaking_operation table: sequence of rows, id = index
  now,      \* the wall clock (datetime.now)
  pc,       \* position of the program: "seed", "idle", "active", "pending", "newheat"
  queue,    \* ids still to be visited by the running processor loop
  seed,     \* locals of seed_initial_timeline
  ret,      \* outcome of the last create_new_heat call
  mark,     \* whether the running tick has changed a status, a plan time
  cfg,      \* the configuration of the run: pool sizes, seeding horizon, clock
  side      \* the steelmaking_warning, steelmaking_event and KPI statistics tables

vars == <<ops, now, pc, queue, seed, ret, mark, cfg, side>>

\* SimulationConfig (config/settings.py): the simulation reads these values
\* from the environment.  DefaultConfig holds the defaults in units of ten
\* minutes, the three minutes of min_rest rounded up to one unit, and the
\* probabilities in hundredths.
DefaultConfig ==
  [min_operation_duration |-> 3, max_operation_duration |-> 5,
   min_transfer_gap_minutes |-> 2, max_transfer_gap_minutes |-> 3,
   max_rest_duration_minutes |-> 2, min_rest_duration_minutes |-> 1,
   aligned_route_probability |-> 90,
   max_warnings_per_operation |-> 10, warning_probability_per_tick |-> 20,
   seed_warning_probability_per_completed_operation |-> 20]

min_operation_duration == cfg.conf.min_operation_duration
max_operation_duration == cfg.conf.max_operation_duration
min_transfer_gap_minutes == cfg.conf.min_transfer_gap_minutes
max_transfer_gap_minutes == cfg.conf.max_transfer_gap_minutes
max_rest_duration_minutes == cfg.conf.max_rest_duration_minutes
min_rest_duration_minutes == cfg.conf.min_rest_duration_minutes
aligned_route_probability == cfg.conf.aligned_route_probability

\* the outcomes of random.random() < aligned_route_probability, random() in [0, 1)
AlignedDraws ==
  IF aligned_route_probability >= 100 THEN {TRUE}
  ELSE IF aligned_route_probability <= 0 THEN {FALSE}
  ELSE BOOLEAN

\* the configured device pool of a stage: the first cfg.pools[p] devices of EQUIPMENT
Devices(process_name) == SubSeq(EQUIPMENT[process_name].devices, 1, cfg.pools[process_name])

Ids == 1..Len(ops)

-----------------------------------------------------------------------------
(* Record store                                                            *)

\* effective window of a row: (real_start or plan_start, real_end or plan_end)
WinStart(o) == Coalesce(o.rs, o.ps)
WinEnd(o) == Coalesce(o.re, o.pe)

\* ids of a set ordered by key, ties by id (insertion order)
RECURSIVE SortIds(_, _)
SortIds(keys, S) ==
  IF S = {} THEN <<>>
  ELSE LET m == CHOOSE i \in S : \A j \in S :
                  \/ keys[i] < keys[j]
                  \/ (keys[i] = keys[j] /\ i <= j)
       IN <<m>> \o SortIds(keys, S \ {m})

PlanStartKeys(table) == [i \in 1..Len(table) |-> table[i].ps]
WinStartKeys(table) == [i \in 1..Len(table) |-> WinStart(table[i])]

get_active_operations(table) ==
  SortIds(WinStartKeys(table), {i \in 1..Len(table) : table[i].status = ACTIVE})

get_pending_operations(table) ==
  SortIds(PlanStartKeys(table), {i \in 1..Len(table) : table[i].status = PENDING})

get_heat_operations(table, heat_no) ==
  SortIds(PlanStartKeys(table), {i \in 1..Len(table) : table[i].heat = heat_no})

\* rows of a device, every status, except the excluded id, ordered by window start
get_device_operation_windows(table, device_no, exclude_operation_id) ==
  SortIds(WinStartKeys(table),
          {i \in 1..Len(table) : table[i].dev = device_no /\ i # exclude_operation_id})

\* the ACTIVE row of the device if any, else its earliest PENDING row, else NULL
get_device_current_operation(table, device_no) ==
  LET act == {i \in 1..Len(table) : table[i].dev = device_no /\ table[i].status = ACTIVE}
      pen == {i \in 1..Len(table) : table[i].dev = device_no /\ table[i].status = PENDING}
  IN IF act # {} THEN SortIds(PlanStartKeys(table), act)[1]
     ELSE IF pen # {} THEN SortIds(PlanStartKeys(table), pen)[1]
     ELSE NULL

\* sequence numbers of a month: YYMM00000 up to, not including, YYMM99999
HeatSeqUpper == 99999
\* the sequence number is the heat number modulo 100000
HeatSeqSpan == 100000

\* MAX(heat_no) over lower_bound <= heat_no < upper_bound, 0 when there is none
get_latest_heat_no_for_month(table) ==
  LET hs == {h \in {table[i].heat : i \in 1..Len(table)} : 0 <= h /\ h < HeatSeqUpper}
  IN IF hs = {} THEN 0 ELSE CHOOSE h \in hs : \A g \in hs : g <= h

insert_operation(table, heat_no, proc_cd, device_no, proc_status, plan_start, plan_end, real_start, real_end) ==
  Append(table, [heat |-> heat_no, proc_cd |-> proc_cd, dev |-> device_no,
                 status |-> proc_status, ps |-> plan_start, pe |-> plan_end,
                 rs |-> real_start, re |-> real_end])

\* COALESCE(new, old) on real_start_time, real_end_time and device_no
update_operation_status(table, id, proc_status, real_start, real_end, device_no) ==
  [table EXCEPT ![id] = [@ EXCEPT !.status = proc_status,
                                  !.rs = Coalesce(real_start, @),
                                  !.re = Coalesce(real_end, @),
                                  !.dev = IF device_no = NoDevice THEN @ ELSE device_no]]

update_operation_plan_times(table, id, plan_start, plan_end) ==
  [table EXCEPT ![id] = [@ EXCEPT !.ps = plan_start, !.pe = plan_end]]

-----------------------------------------------------------------------------
(* Simulator helpers                                                       *)

\* a generator that hands out the latest stored number again
generate_heat_no_Latest(table) == Max2(get_latest_heat_no_for_month(table), 1)

\* the sequence number within the month: latest of the month + 1, or 1; the
\* year and month digits in front of it are the same for every heat here
generate_heat_no(table) ==
  LET latest == get_latest_heat_no_for_month(table)
  IN IF latest # 0 THEN (latest % HeatSeqSpan) + 1 ELSE 1

Durations == min_operation_duration..max_operation_duration
TransferGaps == min_transfer_gap_minutes..max_transfer_gap_minutes
Rests == min_rest_duration_minutes..max_rest_duration_minutes

_get_process_name(proc_cd) ==
  CHOOSE p \in {"BOF", "LF", "CCM"} : EQUIPMENT[p].proc_cd = proc_cd

_is_device_available(table, device_no) ==
  LET cur == get_device_current_operation(table, device_no)
  IN cur = NULL \/ table[cur].status # ACTIVE

IndexOf(s, x) == CHOOSE i \in 1..Len(s) : s[i] = x

\* same pool index as the BOF device, or no device when the pool is shorter
aligned_device(bof_device, process_name) ==
  LET idx == IndexOf(Devices("BOF"), bof_device)
  IN IF idx <= Len(Devices(process_name))
     THEN Devices(process_name)[idx] ELSE NoDevice

-----------------------------------------------------------------------------
(* Side content: warnings (warnings/engine.py), events (events/engine.py,  *)
(* events/generator.py) and KPI statistics (kpi_stats/engine.py).  The     *)
(* timestamps of side content are kept in seconds.                         *)

\* seconds of one unit of the clock
UnitSeconds == 600

Sec(t) == t * UnitSeconds

\* the empty side tables
NoSide == [warnings |-> <<>>, events |-> <<>>, kpi |-> <<>>]

\* the outcomes of random.random() < p, p in hundredths, random() in [0, 1)
Chance(p) == IF p >= 100 THEN {TRUE} ELSE IF p <= 0 THEN {FALSE} ELSE BOOLEAN

Clamp(lo, hi, x) == Max2(lo, Min2(hi, x))

max_warnings_per_operation == cfg.conf.max_warnings_per_operation
warning_probability_per_tick == cfg.conf.warning_probability_per_tick
seed_warning_probability_per_completed_operation ==
  cfg.conf.seed_warning_probability_per_completed_operation

\* random_warning_duration_seconds draws from [1, 180]: the two ends
MinWarningSeconds == 1
MaxWarningSeconds == 180
random_warning_duration_seconds == {MinWarningSeconds, MaxWarningSeconds}

\* min_spacing = max(30.0, target_spacing * 0.7), 60.0 for an empty window
MinSpacingSeconds == 30
EmptyWindowSpacingSeconds == 60

insert_warning(warnings, heat_no, proc_cd, device_no, warning_time_start, warning_time_end) ==
  Append(warnings, [heat |-> heat_no, proc_cd |-> proc_cd, dev |-> device_no,
                    ws |-> warning_time_start, we |-> warning_time_end])

\* WHERE heat_no, proc_cd, device_no match AND window_start <= warning_time_start <= window_end
WindowWarnings(warnings, heat_no, proc_cd, device_no, window_start, window_end) ==
  {i \in 1..Len(warnings) :
     /\ warnings[i].heat = heat_no
     /\ warnings[i].proc_cd = proc_cd
     /\ warnings[i].dev = device_no
     /\ warnings[i].ws >= window_start
     /\ warnings[i].ws <= window_end}

get_operation_warning_count(warnings, heat_no, proc_cd, device_no, window_start, window_end) ==
  Cardinality(WindowWarnings(warnings, heat_no, proc_cd, device_no, window_start, window_end))

\* MAX(warning_time_end) of the window, NULL when it has no warning
get_operation_last_warning_end_time(warnings, heat_no, proc_cd, device_no, window_start, window_end) ==
  LET S == WindowWarnings(warnings, heat_no, proc_cd, device_no, window_start, window_end)
      E == {warnings[i].we : i \in S}
  IN IF S = {} THEN NULL ELSE CHOOSE e \in E : \A f \in E : f <= e

\* (real_start or plan_start, real_end or plan_end) of a row, in seconds
_operation_window(operation) ==
  [start |-> IF WinStart(operation) = NULL THEN NULL ELSE Sec(WinStart(operation)),
   end |-> IF WinEnd(operation) = NULL THEN NULL ELSE Sec(WinEnd(operation))]

\* warnings counted for a row: those of its heat, process and device that
\* start inside its window
OperationWarningCount(warnings, operation) ==
  get_operation_warning_count(warnings, operation.heat, operation.proc_cd, operation.dev,
                              _operation_window(operation).start,
                              _operation_window(operation).end)

\* (now - last_end) < min_spacing, with
\* min_spacing = max(30, 0.7 * (op_end - op_start) / (max_warnings + 1))
TooSoon(window_start, window_end, last_end, now_s) ==
  IF window_end > window_start
  THEN \/ now_s - last_end < MinSpacingSeconds
       \/ 10 * (max_warnings_per_operation + 1) * (now_s - last_end)
            < 7 * (window_end - window_start)
  ELSE now_s - last_end < EmptyWindowSpacingSeconds

\* should_emit_warning_now without the test count >= max_warnings
should_emit_warning_now_NoCap(warnings, operation, now_s) ==
  LET w == _operation_window(operation)
      last_end == get_operation_last_warning_end_time(warnings, operation.heat,
                    operation.proc_cd, operation.dev, w.start, w.end)
  IN IF max_warnings_per_operation <= 0 THEN {FALSE}
     ELSE IF w.start = NULL \/ w.end = NULL THEN {FALSE}
     ELSE IF last_end # NULL /\ TooSoon(w.start, w.end, last_end, now_s) THEN {FALSE}
     ELSE Chance(warning_probability_per_tick)

\* the values should_emit_warning_now can return
should_emit_warning_now(warnings, operation, now_s) ==
  LET w == _operation_window(operation)
      count == OperationWarningCount(warnings, operation)
      last_end == get_operation_last_warning_end_time(warnings, operation.heat,
                    operation.proc_cd, operation.dev, w.start, w.end)
  IN IF max_warnings_per_operation <= 0 THEN {FALSE}
     ELSE IF w.start = NULL \/ w.end = NULL THEN {FALSE}
     ELSE IF count >= max_warnings_per_operation THEN {FALSE}
     ELSE IF last_end # NULL /\ TooSoon(w.start, w.end, last_end, now_s) THEN {FALSE}
     ELSE Chance(warning_probability_per_tick)

\* the tables create_realtime_warning_for_operation can leave
create_realtime_warning_for_operation(warnings, operation, now_s) ==
  {insert_warning(warnings, operation.heat, operation.proc_cd, operation.dev,
                  now_s, now_s + d) : d \in random_warning_duration_seconds}

\* the loop of tick_realtime_warnings over the ACTIVE rows still to visit
RECURSIVE WarningLoop(_, _, _, _)
WarningLoop(warnings, table, q, now_s) ==
  IF q = <<>> THEN {warnings}
  ELSE LET op == table[Head(q)]
           after ==
             IF op.rs = NULL THEN {warnings}
             ELSE IF op.pe # NULL /\ now_s > Sec(op.pe) THEN {warnings}
             ELSE UNION {IF e THEN create_realtime_warning_for_operation(warnings, op, now_s)
                         ELSE {warnings} : e \in should_emit_warning_now(warnings, op, now_s)}
       IN UNION {WarningLoop(w, table, Tail(q), now_s) : w \in after}

tick_realtime_warnings(warnings, table, now_s) ==
  WarningLoop(warnings, table, get_active_operations(table), now_s)

\* middle events followed in a generated event sequence
MaxMiddle == 1
\* entries of config.middle_events that random.choice is followed on
MaxMiddleChoices == 1
\* KPI sample points per operation (min_samples_per_operation, max_samples_per_operation)
KpiMinSamples == 1
KpiMaxSamples == 2
\* largest window_start and window_end of a call, in time units
WindowMax == 2

\* no event code (None)
NoCode == "none"

\* SpecialEventType (events/generator.py)
SpecialNone == "NONE"
SpecialCancel == "CANCEL"
SpecialRework == "REWORK"

\* EVENT_SEQUENCE_CONFIGS (events/sequences.py) of the stages of PROCESS_FLOW,
\* the middle events without their weights
EVENT_SEQUENCE_CONFIGS ==
  [BOF |->
     [start_sequence |-> <<"G12001", "G12003", "G12005">>,
      end_sequence |-> <<"G12025", "G12026", "G12027", "G12028", "G12006", "G12004", "G12002">>,
      middle_events |-> <<"G12017", "G12018", "G12008", "G12019", "G12020", "G12021", "G12009",
                          "G12011", "G12013", "G12014", "G12015", "G12016", "G12023">>,
      paired_events |-> <<<<"G12021", "G12022">>, <<"G12023", "G12024">>>>,
      follow_up_events |-> <<<<"G12009", "G12010">>, <<"G12011", "G12012">>>>,
      cancel_event |-> "G12007",
      rework_event |-> NoCode,
      cancel_end_sequence |-> <<"G12004", "G12002">>],
   LF |->
     [start_sequence |-> <<"G13001", "G13003", "G13005">>,
      end_sequence |-> <<"G13006", "G13004", "G13002">>,
      middle_events |-> <<"G13009", "G13010", "G13022", "G13020", "G13021", "G13024", "G13018",
                          "G13011", "G13013", "G13015", "G13016", "G13017">>,
      paired_events |-> <<<<"G13022", "G13023">>, <<"G13024", "G13025">>, <<"G13018", "G13019">>>>,
      follow_up_events |-> <<<<"G13011", "G13012">>, <<"G13013", "G13014">>>>,
      cancel_event |-> "G13008",
      rework_event |-> "G13007",
      cancel_end_sequence |-> <<"G13004", "G13002">>],
   CCM |->
     [start_sequence |-> <<"G16008", "G16009", "G16010">>,
      end_sequence |-> <<"G16011", "G16012", "G16013", "G16014">>,
      middle_events |-> <<"G16006", "G16007", "G16001", "G16002", "G16016", "G16018", "G16019",
                          "G16021">>,
      paired_events |-> <<<<"G16016", "G16017">>, <<"G16021", "G16022">>>>,
      follow_up_events |-> <<<<"G16019", "G16020">>>>,
      cancel_event |-> "G16015",
      rework_event |-> NoCode,
      cancel_end_sequence |-> <<"G16012">>]]

\* EventEngineConfig (events/engine.py), the probabilities in hundredths
EventEngineConfig ==
  [min_events_per_operation |-> 8, max_events_per_operation |-> 20,
   seed_event_probability_per_completed_operation |-> 95,
   cancel_event_probability |-> 2, rework_event_probability |-> 3]

\* random.uniform(-0.05, 0.05) on the progress of a middle event, in hundredths: the two ends
EventJitters == {-5, 5}

\* random.uniform(1, 10) seconds after the previous event: the two ends
EventBumps == {1, 10}

\* the partner of a code in a list of (code, partner) pairs, as a sequence
\* of one code, or the empty sequence
PairOf(pairs, code) ==
  LET I == {i \in 1..Len(pairs) : pairs[i][1] = code}
  IN IF I = {} THEN <<>> ELSE <<pairs[CHOOSE i \in I : TRUE][2]>>

\* the middle events random.choice(config.middle_events) is drawn from here:
\* the first MaxMiddleChoices of the list, the first pair start and the
\* first event with a follow-up
MiddleAlphabet(config) ==
  {config.middle_events[i] : i \in 1..Min2(Len(config.middle_events), MaxMiddleChoices)}
    \cup {config.paired_events[i][1] : i \in 1..Min2(Len(config.paired_events), 1)}
    \cup {config.follow_up_events[i][1] : i \in 1..Min2(Len(config.follow_up_events), 1)}

\* the values of num_middle, not followed beyond MaxMiddle
NumMiddle(config, should_cancel) ==
  LET fixed == Len(config.start_sequence) + Len(config.end_sequence)
      lo == Max2(0, EventEngineConfig.min_events_per_operation - fixed)
      hi == Max2(0, EventEngineConfig.max_events_per_operation - fixed)
  IN {Min2(MaxMiddle, IF should_cancel /\ config.cancel_event # NoCode
                      THEN Max2(1, n \div 2) ELSE n) : n \in lo..hi}

\* the while loop of _generate_event_code_sequence_with_special and the two
\* extends after it: the loop ends when num_middle events are generated or
\* the attempts are used up by draws that fail their weight
RECURSIVE MiddleLoop(_, _, _, _, _, _)
MiddleLoop(config, sequence, pending_pairs, pending_followups, middle_generated, num_middle) ==
  LET stop == {sequence \o pending_pairs \o pending_followups}
      followup ==
        IF pending_followups = <<>> THEN {}
        ELSE MiddleLoop(config, Append(sequence, Head(pending_followups)), pending_pairs,
                        Tail(pending_followups)
                          \o PairOf(config.follow_up_events, Head(pending_followups)),
                        middle_generated + 1, num_middle)
      Draw(event) ==
        LET pair_end == PairOf(config.paired_events, event)
            seq1 == Append(sequence, event)
            pp1 == pending_pairs \o pair_end
            pf1 == pending_followups \o PairOf(config.follow_up_events, event)
        IN IF pair_end # <<>> /\ Len(pending_pairs) >= 2 THEN {}
           ELSE MiddleLoop(config, seq1, pp1, pf1, middle_generated + 1, num_middle)
                  \cup (IF pp1 = <<>> THEN {}
                        ELSE MiddleLoop(config, Append(seq1, Head(pp1)), Tail(pp1), pf1,
                                        middle_generated + 2, num_middle))
  IN IF middle_generated >= num_middle THEN stop
     ELSE stop \cup followup \cup UNION {Draw(event) : event \in MiddleAlphabet(config)}

\* the (event_codes, special_event_index, special_event_type) that
\* _generate_event_code_sequence_with_special can return, the index from 1
_generate_event_code_sequence_with_special(config, should_cancel, should_rework) ==
  LET middles == UNION {MiddleLoop(config, config.start_sequence, <<>>, <<>>, 0, n) :
                          n \in NumMiddle(config, should_cancel)}
  IN {IF should_cancel /\ config.cancel_event # NoCode
      THEN [event_codes |-> Append(s, config.cancel_event) \o config.cancel_end_sequence,
            special_event_index |-> Len(s) + 1, special_event_type |-> SpecialCancel]
      ELSE IF should_rework /\ config.rework_event # NoCode
      THEN [event_codes |-> Append(s, config.rework_event) \o config.end_sequence,
            special_event_index |-> Len(s) + 1, special_event_type |-> SpecialRework]
      ELSE [event_codes |-> s \o config.end_sequence,
            special_event_index |-> NULL, special_event_type |-> SpecialNone] : s \in middles}

\* the time of the event at index i (from 0) before the corrections: 10% of
\* the duration for the start sequence, 80% for the middle, 10% for the end
EventBaseTimes(i, num_events, start_seq_len, end_seq_len, middle_len, start_time, total_duration) ==
  LET tenth == total_duration \div 10
  IN IF i < start_seq_len
     THEN {start_time + (tenth * i) \div Max2(start_seq_len, 1)}
     ELSE IF i >= num_events - end_seq_len
     THEN {start_time + 9 * tenth
             + (tenth * (i - (num_events - end_seq_len))) \div Max2(end_seq_len, 1)}
     ELSE {start_time + tenth
             + (8 * tenth * Clamp(0, 100, (100 * (i - start_seq_len)) \div Max2(middle_len, 1) + j))
                 \div 100 : j \in EventJitters}

\* the times of the events from index i on, after the times already given:
\* strictly after the previous event, and before end_time
RECURSIVE EventTimes(_, _, _, _, _, _, _, _)
EventTimes(i, times, num_events, start_seq_len, end_seq_len, middle_len, start_time, end_time) ==
  IF i >= num_events THEN {times}
  ELSE LET base == EventBaseTimes(i, num_events, start_seq_len, end_seq_len, middle_len,
                                  start_time, end_time - start_time)
           later == UNION {IF times # <<>> /\ t <= times[Len(times)]
                           THEN {times[Len(times)] + b : b \in EventBumps}
                           ELSE {t} : t \in base}
           capped == {IF t >= end_time THEN end_time - (num_events - i) * 2 ELSE t : t \in later}
       IN UNION {EventTimes(i + 1, Append(times, t), num_events, start_seq_len, end_seq_len,
                            middle_len, start_time, end_time) : t \in capped}

\* events.sort(key=lambda e: e.event_time_start)
SortByTime(events) ==
  LET order == SortIds([i \in 1..Len(events) |-> events[i].t], 1..Len(events))
  IN [i \in 1..Len(events) |-> events[order[i]]]

\* the event lists of one code sequence
SequenceEvents(heat_no, proc_cd, device_no, start_time, end_time, config, should_cancel, seq) ==
  LET num_events == Len(seq.event_codes)
      start_seq_len == Len(config.start_sequence)
      end_seq_len == IF should_cancel /\ config.cancel_end_sequence # <<>>
                     THEN Len(config.cancel_end_sequence) ELSE Len(config.end_sequence)
      middle_len == Max2(0, num_events - start_seq_len - end_seq_len
                              - (IF seq.special_event_index # NULL THEN 1 ELSE 0))
  IN {SortByTime([i \in 1..num_events |->
                    [heat |-> heat_no, proc_cd |-> proc_cd, dev |-> device_no,
                     code |-> seq.event_codes[i], t |-> times[i],
                     special |-> IF i = seq.special_event_index
                                 THEN seq.special_event_type ELSE SpecialNone]]) :
        times \in EventTimes(0, <<>>, num_events, start_seq_len, end_seq_len, middle_len,
                             start_time, end_time)}

\* generate_event_sequence without the test total_duration <= 0
generate_event_sequence_NoGuard(heat_no, proc_cd, device_no, start_time, end_time, force_cancel, force_rework) ==
  LET config == EVENT_SEQUENCE_CONFIGS[_get_process_name(proc_cd)]
  IN UNION {UNION {UNION {SequenceEvents(heat_no, proc_cd, device_no, start_time, end_time,
                                         config, should_cancel, seq) :
                            seq \in _generate_event_code_sequence_with_special(
                                      config, should_cancel, should_rework)} :
                     should_rework \in IF should_cancel THEN {FALSE}
                                       ELSE IF force_rework THEN {TRUE}
                                       ELSE IF config.rework_event = NoCode THEN {FALSE}
                                       ELSE Chance(EventEngineConfig.rework_event_probability)} :
              should_cancel \in IF force_cancel THEN {TRUE}
                                ELSE IF config.cancel_event = NoCode THEN {FALSE}
                                ELSE Chance(EventEngineConfig.cancel_event_probability)}

\* the event lists generate_event_sequence can return, in chronological order
generate_event_sequence(heat_no, proc_cd, device_no, start_time, end_time, force_cancel, force_rework) ==
  IF end_time - start_time <= 0 THEN {<<>>}
  ELSE generate_event_sequence_NoGuard(heat_no, proc_cd, device_no, start_time, end_time,
                                       force_cancel, force_rework)

\* the event lists generate_events_for_operation can return for a row
generate_events_for_operation(operation, force_cancel, force_rework) ==
  IF WinStart(operation) = NULL \/ WinEnd(operation) = NULL THEN {<<>>}
  ELSE generate_event_sequence(operation.heat, operation.proc_cd, operation.dev,
                               Sec(WinStart(operation)), Sec(WinEnd(operation)),
                               force_cancel, force_rework)

\* EventSequenceResult.from_events
from_events(events) ==
  LET C == {i \in 1..Len(events) : events[i].special = SpecialCancel}
      W == {i \in 1..Len(events) : events[i].special = SpecialRework}
      Last(I) == CHOOSE i \in I : \A j \in I : j <= i
  IN [events |-> events, has_cancel |-> C # {}, has_rework |-> W # {},
      cancel_event_time |-> IF C = {} THEN NULL ELSE events[Last(C)].t,
      rework_event_time |-> IF W = {} THEN NULL ELSE events[Last(W)].t]

\* appends the rows of a list of events to the steelmaking_event table
insert_events_batch(table, events) ==
  table \o [i \in 1..Len(events) |->
              [heat |-> events[i].heat, proc_cd |-> events[i].proc_cd, dev |-> events[i].dev,
               code |-> events[i].code, t |-> events[i].t]]

\* ids of the events of a heat, process and device that start inside the window
get_operation_events(table, heat_no, proc_cd, device_no, window_start, window_end) ==
  SortIds([i \in 1..Len(table) |-> table[i].t],
          {i \in 1..Len(table) : /\ table[i].heat = heat_no
                                 /\ table[i].proc_cd = proc_cd
                                 /\ table[i].dev = device_no
                                 /\ table[i].t >= window_start
                                 /\ table[i].t <= window_end})

\* the (table, result) pairs seed_historical_events_for_completed_operation can leave
seed_historical_events_for_completed_operation(table, heat_no, proc_cd, device_no, window_start, window_end, force_cancel, force_rework) ==
  LET nothing == [table |-> table, result |-> from_events(<<>>)]
      draws == Chance(EventEngineConfig.seed_event_probability_per_completed_operation)
  IN IF window_start = NULL \/ window_end = NULL \/ window_end <= window_start THEN {nothing}
     ELSE (IF FALSE \in draws THEN {nothing} ELSE {})
            \cup (IF TRUE \in draws
                  THEN {IF events = <<>> THEN nothing
                        ELSE [table |-> insert_events_batch(table, events),
                              result |-> from_events(events)] :
                          events \in generate_event_sequence(heat_no, proc_cd, device_no,
                                       window_start, window_end, force_cancel, force_rework)}
                  ELSE {})

\* random.uniform(-jitter, jitter) with jitter = segment * 0.15, in hundredths
\* of the segment: the two ends
WarningJitters == {-15, 15}

\* the sorted lists of start times drawn for count warnings of a window
SeedWarningStarts(window_start, window_end, count) ==
  LET segment == (window_end - window_start) \div (count + 1)
      Starts(j) == [i \in 1..count |->
                      Clamp(window_start, window_end,
                            window_start + segment * i + (segment * j[i]) \div 100)]
      Sorted(s) == [i \in 1..count |-> s[SortIds(s, 1..count)[i]]]
  IN {Sorted(Starts(j)) : j \in [1..count -> WarningJitters]}

\* the insert loop over the sorted starts, from the k-th start on
RECURSIVE SeedWarningLoop(_, _, _, _, _, _, _)
SeedWarningLoop(warnings, heat_no, proc_cd, device_no, window_end, starts, k) ==
  IF k > Len(starts) THEN {warnings}
  ELSE UNION {LET end == Min2(starts[k] + d, window_end)
              IN SeedWarningLoop(IF end <= starts[k] THEN warnings
                                 ELSE insert_warning(warnings, heat_no, proc_cd, device_no,
                                                     starts[k], end),
                                 heat_no, proc_cd, device_no, window_end, starts, k + 1) :
                d \in random_warning_duration_seconds}

\* the warning tables seed_historical_warnings_for_completed_operation can leave
seed_historical_warnings_for_completed_operation(warnings, heat_no, proc_cd, device_no, window_start, window_end) ==
  IF \/ max_warnings_per_operation <= 0
     \/ window_start = NULL
     \/ window_end = NULL
     \/ window_end <= window_start
  THEN {warnings}
  ELSE LET draws == Chance(seed_warning_probability_per_completed_operation)
       IN (IF FALSE \in draws THEN {warnings} ELSE {})
            \cup (IF TRUE \in draws
                  THEN IF window_end - window_start <= 1 THEN {warnings}
                       ELSE UNION {UNION {SeedWarningLoop(warnings, heat_no, proc_cd, device_no,
                                                          window_end, starts, 1) :
                                            starts \in SeedWarningStarts(window_start, window_end,
                                                                         count)} :
                                     count \in 1..max_warnings_per_operation}
                  ELSE {})

\* KpiStatsEngineConfig (kpi_stats/engine.py), the probability in hundredths
KpiStatsEngineConfig ==
  [seed_kpi_stats_probability |-> 95,
   min_samples_per_operation |-> 5, max_samples_per_operation |-> 15]

\* random.uniform(-interval * 0.3, interval * 0.3), in hundredths of the
\* interval: the two ends
KpiJitters == {-30, 30}

\* the rows of the KPI definition table for a process: generate_value
\* returns None for a definition without limits
get_kpi_definitions(proc_cd) ==
  SelectSeq(cfg.kpi_definitions, LAMBDA d : d.proc_cd = proc_cd)

\* the lists of sample times _generate_sample_times can return
_generate_sample_times(start, end, num_samples) ==
  IF num_samples <= 0 THEN {<<>>}
  ELSE IF num_samples = 1 THEN {<<start + (end - start) \div 2>>}
  ELSE LET total_seconds == end - start
           interval == total_seconds \div num_samples
           Times(j) == [i \in 1..num_samples |->
                          start + Clamp(0, total_seconds,
                                        (interval * (2 * i - 1)) \div 2
                                          + (interval * j[i]) \div 100)]
           Sorted(s) == [i \in 1..num_samples |-> s[SortIds(s, 1..num_samples)[i]]]
       IN {Sorted(Times(j)) : j \in [1..num_samples -> KpiJitters]}

\* generate_stats_for_operation: one row for every definition that has a value
generate_stats_for_operation(heat_no, proc_cd, device_no, kpi_definitions, sample_time) ==
  LET valued == SelectSeq(kpi_definitions, LAMBDA d : d.limits)
  IN [i \in 1..Len(valued) |->
        [heat |-> heat_no, proc_cd |-> proc_cd, dev |-> device_no,
         kpi_code |-> valued[i].kpi_code, t |-> sample_time]]

\* all_stats of a list of sample times
RECURSIVE AllStats(_, _, _, _, _)
AllStats(heat_no, proc_cd, device_no, kpi_definitions, sample_times) ==
  IF sample_times = <<>> THEN <<>>
  ELSE generate_stats_for_operation(heat_no, proc_cd, device_no, kpi_definitions,
                                    Head(sample_times))
         \o AllStats(heat_no, proc_cd, device_no, kpi_definitions, Tail(sample_times))

\* the (table, count) pairs seed_historical_kpi_stats_for_completed_operation can leave
seed_historical_kpi_stats_for_completed_operation(kpi, heat_no, proc_cd, device_no, window_start, window_end) ==
  LET nothing == [kpi |-> kpi, count |-> 0]
      draws == Chance(cfg.kpi.seed_kpi_stats_probability)
      kpi_definitions == get_kpi_definitions(proc_cd)
  IN IF window_start = NULL \/ window_end = NULL \/ window_end <= window_start THEN {nothing}
     ELSE (IF FALSE \in draws THEN {nothing} ELSE {})
            \cup (IF TRUE \in draws
                  THEN IF kpi_definitions = <<>> THEN {nothing}
                       ELSE UNION {IF window_end - window_start <= 1 \/ num_samples < 1
                                   THEN {nothing}
                                   ELSE {LET all_stats == AllStats(heat_no, proc_cd, device_no,
                                                                   kpi_definitions, sample_times)
                                         IN IF all_stats = <<>> THEN nothing
                                            ELSE [kpi |-> kpi \o all_stats,
                                                  count |-> Len(all_stats)] :
                                           sample_times \in _generate_sample_times(
                                                              window_start, window_end,
                                                              num_samples)} :
                                     num_samples \in cfg.kpi.min_samples_per_operation
                                                       ..cfg.kpi.max_samples_per_operation}
                  ELSE {})

-----------------------------------------------------------------------------
(* Device scheduler (scheduler.py)                                         *)

\* (start, end) of a row, or the empty tuple (None) when the row is only a
\* pending plan and pending plans are not to be considered
_normalize_window(row, include_pending_plans) ==
  IF ~include_pending_plans /\ row.status = PENDING /\ row.rs = NULL THEN <<>>
  ELSE <<WinStart(row), WinEnd(row)>>

RECURSIVE NormalizeAll(_, _, _)
NormalizeAll(table, ids, include_pending_plans) ==
  IF ids = <<>> THEN <<>>
  ELSE LET w == _normalize_window(table[Head(ids)], include_pending_plans)
       IN (IF w = <<>> THEN <<>> ELSE <<w>>) \o NormalizeAll(table, Tail(ids), include_pending_plans)

_get_device_windows(table, device_no, exclude_operation_id, include_pending_plans) ==
  NormalizeAll(table, get_device_operation_windows(table, device_no, exclude_operation_id),
               include_pending_plans)

RECURSIVE GapWalk(_, _, _, _, _, _)
\* a gap walk that keeps no rest before the next window
GapWalk_NoRestBeforeNext(windows, idx, prev_end, desired_start, duration, enforce_max_rest) ==
  IF idx > Len(windows) + 1 THEN NULL
  ELSE
    LET hasNext == idx <= Len(windows)
        next_start == IF hasNext THEN windows[idx][1] ELSE NULL
        lower == IF prev_end # NULL
                 THEN Max2(desired_start, prev_end + min_rest_duration_minutes)
                 ELSE desired_start
    IN IF hasNext /\ lower + duration > next_start
       THEN GapWalk(windows, idx + 1, windows[idx][2], desired_start, duration,
                    enforce_max_rest)
       ELSE lower

\* the gap walk of find_slot on one device: the selected start, or NULL
GapWalk(windows, idx, prev_end, desired_start, duration, enforce_max_rest) ==
  IF idx > Len(windows) + 1 THEN NULL
  ELSE
    LET hasNext == idx <= Len(windows)
        next_start == IF hasNext THEN windows[idx][1] ELSE NULL
        hasPrev == prev_end # NULL
        l1 == IF hasPrev THEN Max2(desired_start, prev_end + min_rest_duration_minutes)
              ELSE desired_start
        l2 == IF hasNext /\ enforce_max_rest
              THEN Max2(l1, next_start - max_rest_duration_minutes - duration) ELSE l1
        lower == IF hasPrev THEN Max2(l2, prev_end) ELSE l2
        cands == (IF hasPrev /\ enforce_max_rest
                  THEN {prev_end + max_rest_duration_minutes} ELSE {})
                 \cup (IF hasNext
                       THEN {next_start - duration,
                             next_start - min_rest_duration_minutes - duration}
                       ELSE {})
        blocked == \/ \E u \in cands : lower > u
                   \/ (hasNext /\ lower + duration > next_start)
    IN IF blocked
       THEN GapWalk(windows, idx + 1, IF hasNext THEN windows[idx][2] ELSE prev_end,
                    desired_start, duration, enforce_max_rest)
       ELSE lower

\* a search that looks only at the gap after the last window
DeviceStart_LastGapOnly(table, device_no, desired_start, duration, exclude_operation_id, include_pending_plans, enforce_max_rest) ==
  LET windows == _get_device_windows(table, device_no, exclude_operation_id,
                                     include_pending_plans)
  IN GapWalk(windows, Len(windows) + 1,
             IF windows = <<>> THEN NULL ELSE windows[Len(windows)][2],
             desired_start, duration, enforce_max_rest)

\* a search that applies the max_rest ceiling whatever enforce_max_rest says
DeviceStart_AlwaysCeiling(table, device_no, desired_start, duration, exclude_operation_id, include_pending_plans, enforce_max_rest) ==
  LET windows == _get_device_windows(table, device_no, exclude_operation_id,
                                     include_pending_plans)
  IN GapWalk(windows, 1, NULL, desired_start, duration, TRUE)

\* a search that never applies the max_rest ceiling
DeviceStart_NoCeiling(table, device_no, desired_start, duration, exclude_operation_id, include_pending_plans, enforce_max_rest) ==
  LET windows == _get_device_windows(table, device_no, exclude_operation_id,
                                     include_pending_plans)
  IN GapWalk(windows, 1, NULL, desired_start, duration, FALSE)

DeviceStart(table, device_no, desired_start, duration, exclude_operation_id, include_pending_plans, enforce_max_rest) ==
  GapWalk(_get_device_windows(table, device_no, exclude_operation_id, include_pending_plans),
          1, NULL, desired_start, duration, enforce_max_rest)

\* a search that returns any device with an admissible start
find_slot_AnyDevice(table, desired_start, latest_start, duration, devices, exclude_operation_id, include_pending_plans, enforce_max_rest) ==
  LET start(d) == DeviceStart(table, d, desired_start, duration, exclude_operation_id,
                              include_pending_plans, enforce_max_rest)
  IN {[device_no |-> d, plan_start |-> start(d), plan_end |-> start(d) + duration] :
        d \in {e \in SeqToSet(devices) :
                 start(e) # NULL /\ (latest_start = NULL \/ start(e) <= latest_start)}}

\* a search that does not look at latest_start
find_slot_IgnoreLatest(table, desired_start, latest_start, duration, devices, exclude_operation_id, include_pending_plans, enforce_max_rest) ==
  LET start(d) == DeviceStart(table, d, desired_start, duration, exclude_operation_id,
                              include_pending_plans, enforce_max_rest)
      ok == {d \in SeqToSet(devices) : start(d) # NULL}
  IN {[device_no |-> d, plan_start |-> start(d), plan_end |-> start(d) + duration] :
        d \in {e \in ok : \A f \in ok : start(e) <= start(f)}}

\* The slots find_slot can return: devices are visited in a random order and a
\* later device replaces the best one only with a strictly earlier start, so
\* every device reaching the earliest admissible start can be the one returned.
\* The empty set stands for None.
find_slot(table, desired_start, latest_start, duration, devices, exclude_operation_id, include_pending_plans, enforce_max_rest) ==
  LET start(d) == DeviceStart(table, d, desired_start, duration, exclude_operation_id,
                              include_pending_plans, enforce_max_rest)
      ok == {d \in SeqToSet(devices) :
               /\ start(d) # NULL
               /\ (latest_start = NULL \/ start(d) <= latest_start)}
  IN {[device_no |-> d, plan_start |-> start(d), plan_end |-> start(d) + duration] :
        d \in {e \in ok : \A f \in ok : start(e) <= start(f)}}

-----------------------------------------------------------------------------
(* Historical seeder (seeding/seeder.py)                                   *)

\* start_time = now - span_past, end_time = now + span_future
start_time == 0
end_time == cfg.span_past + cfg.span_future

\* for _attempt in range(30)
MaxAttempts == 30

SeedStart(line) == [line |-> line, cursor |-> start_time, attempt |-> 0,
                    last_end_bof |-> NULL, last_end_lf |-> NULL, last_end_ccm |-> NULL]

\* a cancel event is a middle event of the backfilled sequence: strictly
\* inside the window
CancelTimes(window_start, window_end) == (window_start + 1)..(window_end - 1)

\* a classification that leaves a stage ending exactly at now ACTIVE
Classify_EndAtNowActive(plan_start, plan_end, t) ==
  IF plan_end < t THEN [status |-> COMPLETED, rs |-> plan_start, re |-> plan_end]
  ELSE IF plan_start <= t THEN [status |-> ACTIVE, rs |-> plan_start, re |-> NULL]
  ELSE [status |-> PENDING, rs |-> NULL, re |-> NULL]

\* status and real times of a seeded stage from its window and now
Classify(plan_start, plan_end, t) ==
  IF plan_end <= t THEN [status |-> COMPLETED, rs |-> plan_start, re |-> plan_end]
  ELSE IF plan_start <= t /\ t < plan_end THEN [status |-> ACTIVE, rs |-> plan_start, re |-> NULL]
  ELSE [status |-> PENDING, rs |-> NULL, re |-> NULL]

\* Insert the stages of one heat.  cancelAt is the index of the stage whose
\* backfilled events contain a cancel event (0: none) at time cancelTime.
RECURSIVE SeedStages(_, _, _, _, _, _, _)
\* a seeder that cancels the stage of the cancel event and not the stages after it
SeedStages_NoPropagation(table, heat_no, stages, stage_idx, cancelAt, cancelTime, t) ==
  IF stage_idx > Len(stages) THEN table
  ELSE
    LET s == stages[stage_idx]
        c == Classify(s.ps, s.pe, t)
        t1 == insert_operation(table, heat_no, s.proc_cd, s.dev, c.status, s.ps, s.pe,
                               c.rs, c.re)
        t2 == IF stage_idx = cancelAt
              THEN update_operation_status(t1, Len(t1), CANCELED, NULL, cancelTime, NoDevice)
              ELSE t1
    IN SeedStages(t2, heat_no, stages, stage_idx + 1, cancelAt, cancelTime, t)

\* a seeder that stops inserting the stages of a heat at the canceled stage
SeedStages_StopAtCancel(table, heat_no, stages, stage_idx, cancelAt, cancelTime, t) ==
  IF stage_idx > Len(stages) \/ (cancelAt # 0 /\ stage_idx > cancelAt) THEN table
  ELSE
    LET s == stages[stage_idx]
        c == Classify(s.ps, s.pe, t)
        t1 == insert_operation(table, heat_no, s.proc_cd, s.dev, c.status, s.ps, s.pe,
                               c.rs, c.re)
        t2 == IF stage_idx = cancelAt
              THEN update_operation_status(t1, Len(t1), CANCELED, NULL, cancelTime, NoDevice)
              ELSE t1
    IN SeedStages(t2, heat_no, stages, stage_idx + 1, cancelAt, cancelTime, t)

SeedStages(table, heat_no, stages, stage_idx, cancelAt, cancelTime, t) ==
  IF stage_idx > Len(stages) THEN table
  ELSE
    LET s == stages[stage_idx]
        c == Classify(s.ps, s.pe, t)
        canceledBefore == cancelAt # 0 /\ stage_idx > cancelAt
        row == IF canceledBefore THEN [status |-> CANCELED, rs |-> NULL, re |-> NULL] ELSE c
        t1 == insert_operation(table, heat_no, s.proc_cd, s.dev, row.status, s.ps, s.pe,
                               row.rs, row.re)
        t2 == IF stage_idx = cancelAt
              THEN update_operation_status(t1, Len(t1), CANCELED, NULL, cancelTime, NoDevice)
              ELSE t1
    IN SeedStages(t2, heat_no, stages, stage_idx + 1, cancelAt, cancelTime, t)

\* the cursor has passed the horizon: go to the next lineage or finish
SeedAdvance(s, cursor) ==
  IF cursor <= end_time
  THEN [s EXCEPT !.cursor = cursor, !.attempt = 0]
  ELSE IF s.line < Len(Devices("BOF")) THEN SeedStart(s.line + 1)
  ELSE SeedStart(0)

LineDevice(process_name, line) ==
  IF line <= Len(Devices(process_name))
  THEN Devices(process_name)[line] ELSE Devices(process_name)[1]

\* a skip that leaves the cursor where it is
SeedSkip_NoAdvance(s) == SeedAdvance(s, s.cursor)

\* not inserted: cursor += max_rest
SeedSkip(s) == SeedAdvance(s, s.cursor + max_rest_duration_minutes)

\* `continue`: the next attempt of the iteration, or the end of the
\* iteration without a heat after the last attempt
SeedRetry(s) ==
  IF s.attempt + 1 < MaxAttempts THEN [s EXCEPT !.attempt = @ + 1] ELSE SeedSkip(s)

\* One placement attempt of the current lineage with what follows it: the
\* heat is inserted and the cursor moves behind its first stage when the
\* draw passes every test, the iteration ends without a heat when the draw
\* breaks out (bof_start > end_time), and onContinue is the seeder after a
\* draw that `continue`s.
SeedPlace(onContinue) ==
  /\ pc = "seed"
  /\ \E bof_rest \in Rests, bof_duration \in Durations :
       LET bof_start == IF seed.last_end_bof = NULL THEN seed.cursor
                        ELSE Max2(seed.cursor, seed.last_end_bof + bof_rest)
           bof_end == bof_start + bof_duration
           lf_e0 == bof_end + min_transfer_gap_minutes
           lf_l0 == bof_end + max_transfer_gap_minutes
           lf_earliest == IF seed.last_end_lf = NULL THEN lf_e0
                          ELSE Max2(lf_e0, seed.last_end_lf + min_rest_duration_minutes)
           lf_latest == IF seed.last_end_lf = NULL THEN lf_l0
                        ELSE Min2(lf_l0, seed.last_end_lf + max_rest_duration_minutes)
       IN IF bof_start > end_time
          THEN /\ seed' = SeedSkip(seed)
               /\ UNCHANGED ops
          ELSE IF lf_earliest > lf_latest
          THEN /\ seed' = onContinue
               /\ UNCHANGED ops
          ELSE \E lf_duration \in Durations, lf_start \in lf_earliest..lf_latest :
            LET lf_end == lf_start + lf_duration
                ccm_e0 == lf_end + min_transfer_gap_minutes
                ccm_l0 == lf_end + max_transfer_gap_minutes
                ccm_earliest == IF seed.last_end_ccm = NULL THEN ccm_e0
                                ELSE Max2(ccm_e0, seed.last_end_ccm + min_rest_duration_minutes)
                ccm_latest == IF seed.last_end_ccm = NULL THEN ccm_l0
                              ELSE Min2(ccm_l0, seed.last_end_ccm + max_rest_duration_minutes)
            IN IF ccm_earliest > ccm_latest
               THEN /\ seed' = onContinue
                    /\ UNCHANGED ops
               ELSE \E ccm_duration \in Durations, ccm_start \in ccm_earliest..ccm_latest,
                       next_rest \in Rests, cancelAt \in 0..3 :
                 LET ccm_end == ccm_start + ccm_duration
                     stages ==
                       <<[proc_cd |-> EQUIPMENT["BOF"].proc_cd, dev |-> LineDevice("BOF", seed.line),
                          ps |-> bof_start, pe |-> bof_end],
                         [proc_cd |-> EQUIPMENT["LF"].proc_cd, dev |-> LineDevice("LF", seed.line),
                          ps |-> lf_start, pe |-> lf_end],
                         [proc_cd |-> EQUIPMENT["CCM"].proc_cd, dev |-> LineDevice("CCM", seed.line),
                          ps |-> ccm_start, pe |-> ccm_end]>>
                 IN /\ cancelAt # 0 => stages[cancelAt].pe <= now
                    /\ \E cancelTime \in (IF cancelAt = 0 THEN {NULL}
                                          ELSE CancelTimes(stages[cancelAt].ps,
                                                           stages[cancelAt].pe)) :
                         ops' = SeedStages(ops, generate_heat_no(ops), stages, 1,
                                           cancelAt, cancelTime, now)
                    /\ seed' = SeedAdvance([seed EXCEPT !.last_end_bof = bof_end,
                                                        !.last_end_lf = lf_end,
                                                        !.last_end_ccm = ccm_end],
                                           bof_end + next_rest)
  /\ pc' = IF seed'.line = 0 THEN "idle" ELSE "seed"
  /\ UNCHANGED <<now, queue, ret, mark, cfg, side>>

\* One iteration of `while cursor <= end_time` for the current lineage.  The
\* placement attempts of `for _attempt in range(30)` draw independently: the
\* iteration inserts a heat when some draw passes every test, and ends
\* without inserting when a draw breaks out (bof_start > end_time) or when
\* every attempt draws values that `continue`.
SeedIteration == SeedPlace(SeedSkip(seed))

\* One pass through the body of `for _attempt in range(30)`, attempt by
\* attempt.
SeedAttempt == SeedPlace(SeedRetry(seed))

-----------------------------------------------------------------------------

(* Heat planner (heat_planner.py)                                          *)

NoCall == [called |-> FALSE, heat_no |-> NULL, generated |-> FALSE]

\* a planner that searches without the latest admissible start
PlannerSlots_NoLatest(table, process_name, desired_start, latest_start, duration, preferred_device) ==
  find_slot(table, desired_start, NULL, duration, Devices(process_name), NULL, TRUE, TRUE)

\* a planner that searches the whole pool without trying the aligned device
PlannerSlots_PoolOnly(table, process_name, desired_start, latest_start, duration, preferred_device) ==
  find_slot(table, desired_start, latest_start, duration, Devices(process_name), NULL, TRUE, TRUE)

\* the slot of a later stage: the aligned device first, then the whole pool
PlannerSlots(table, process_name, desired_start, latest_start, duration, preferred_device) ==
  LET first == IF preferred_device = NoDevice THEN {}
               ELSE find_slot(table, desired_start, latest_start, duration,
                              <<preferred_device>>, NULL, TRUE, TRUE)
  IN IF first # {} THEN first
     ELSE find_slot(table, desired_start, latest_start, duration, Devices(process_name),
                    NULL, TRUE, TRUE)

RECURSIVE PersistPlan(_, _, _)
\* a planner that stores every entry as PENDING without real times
PersistPlan_AllPending(table, planned, heat_no) ==
  IF planned = <<>> THEN table
  ELSE LET e == Head(planned)
       IN PersistPlan(insert_operation(table, heat_no, e.proc_cd, e.dev, PENDING,
                                       e.ps, e.pe, NULL, NULL),
                      Tail(planned), heat_no)

\* insert every planned entry under one heat number
PersistPlan(table, planned, heat_no) ==
  IF planned = <<>> THEN table
  ELSE LET e == Head(planned)
       IN PersistPlan(insert_operation(table, heat_no, e.proc_cd, e.dev, e.status,
                                       e.ps, e.pe, e.rs, e.re),
                      Tail(planned), heat_no)

\* a planner that stores the entries found so far before it gives up
PlanAbort_Partial(table, planned) ==
  [table |-> PersistPlan(table, planned, generate_heat_no(table)), heat_no |-> NULL,
   generated |-> planned # <<>>]

\* return None: the entries planned so far are dropped, nothing is stored and
\* no heat number is generated
PlanAbort(table, planned) == [table |-> table, heat_no |-> NULL, generated |-> FALSE]

PlanCommit(table, planned) ==
  LET heat_no == generate_heat_no(table)
  IN [table |-> PersistPlan(table, planned, heat_no), heat_no |-> heat_no, generated |-> TRUE]

\* stages k.. of the process flow, planned after the entries found so far
RECURSIVE PlanLaterStages(_, _, _, _)
PlanLaterStages(table, planned, bof_device, k) ==
  IF k > Len(PROCESS_FLOW) THEN {PlanCommit(table, planned)}
  ELSE
    LET process_name == PROCESS_FLOW[k]
        prev_end == planned[Len(planned)].pe
    IN UNION {
         LET slots == PlannerSlots(table, process_name, prev_end + transfer_offset,
                                   prev_end + max_transfer_gap_minutes, duration,
                                   IF aligned THEN aligned_device(bof_device, process_name)
                                   ELSE NoDevice)
         IN IF slots = {} THEN {PlanAbort(table, planned)}
            ELSE UNION {
                   PlanLaterStages(table,
                     Append(planned, [proc_cd |-> EQUIPMENT[process_name].proc_cd,
                                      dev |-> slot.device_no, status |-> PENDING,
                                      ps |-> slot.plan_start, pe |-> slot.plan_end,
                                      rs |-> NULL, re |-> NULL]),
                     bof_device, k + 1) : slot \in slots}
         : duration \in Durations, transfer_offset \in TransferGaps, aligned \in AlignedDraws}

\* the possible outcomes of create_new_heat at time t
create_new_heat(table, t) ==
  UNION {
    LET bof_slots == find_slot(table, t, t, bof_duration, Devices("BOF"), NULL, TRUE, TRUE)
    IN IF bof_slots = {} THEN {PlanAbort(table, <<>>)}
       ELSE UNION {
              PlanLaterStages(table,
                <<[proc_cd |-> EQUIPMENT["BOF"].proc_cd, dev |-> bof_slot.device_no,
                   status |-> ACTIVE, ps |-> bof_slot.plan_start, pe |-> bof_slot.plan_end,
                   rs |-> bof_slot.plan_start, re |-> NULL]>>,
                bof_slot.device_no, 2) : bof_slot \in bof_slots}
    : bof_duration \in Durations}

-----------------------------------------------------------------------------
(* Runtime processor (operation_processor.py)                              *)

\* write a found slot into the planned fields and the device of a pending row
ApplySlot(table, id, slot) ==
  LET t1 == IF slot.plan_start # table[id].ps \/ slot.plan_end # table[id].pe
            THEN update_operation_plan_times(table, id, slot.plan_start, slot.plan_end)
            ELSE table
  IN IF slot.device_no # t1[id].dev
     THEN update_operation_status(t1, id, t1[id].status, NULL, NULL, slot.device_no)
     ELSE t1

\* a start that sets the status without the real start time
StartIfReady_NoRealStart(table, id, slot, t) ==
  IF t < slot.plan_start THEN table
  ELSE IF ~_is_device_available(table, slot.device_no) THEN table
  ELSE update_operation_status(table, id, ACTIVE, NULL, NULL, slot.device_no)

\* start the row on the slot's device if its time has come and the device is free
StartIfReady(table, id, slot, t) ==
  IF t < slot.plan_start THEN table
  ELSE IF ~_is_device_available(table, slot.device_no) THEN table
  ELSE update_operation_status(table, id, ACTIVE, t, NULL, slot.device_no)

\* the slot of the next stage after a completion: aligned device, then the pool
CompletionSlots(table, process_name, desired_start, latest_start, duration, preferred_device, exclude_operation_id) ==
  LET first == IF preferred_device = NoDevice THEN {}
               ELSE find_slot(table, desired_start, latest_start, duration,
                              <<preferred_device>>, exclude_operation_id, TRUE, TRUE)
  IN IF first # {} THEN first
     ELSE find_slot(table, desired_start, latest_start, duration, Devices(process_name),
                    exclude_operation_id, TRUE, TRUE)

\* next((op for op in heat_ops if ...), None) over a set of positions
FirstOf(ids, hits) ==
  IF hits = {} THEN NULL ELSE ids[CHOOSE k \in hits : \A j \in hits : k <= j]

FirstWithStatus(table, ids, proc_status) ==
  FirstOf(ids, {k \in 1..Len(ids) : table[ids[k]].status = proc_status})

FirstWithProc(table, ids, proc_cd) ==
  FirstOf(ids, {k \in 1..Len(ids) : table[ids[k]].proc_cd = proc_cd})

\* the tables _complete_operation can leave behind
_complete_operation(table, id, completion_time) ==
  LET t1 == update_operation_status(table, id, COMPLETED, NULL, completion_time, NoDevice)
      heat_ops == get_heat_operations(t1, t1[id].heat)
      next_op == FirstWithStatus(t1, heat_ops, PENDING)
  IN IF next_op = NULL THEN {t1}
     ELSE
       LET proc_name == _get_process_name(t1[next_op].proc_cd)
           planned_duration == t1[next_op].pe - t1[next_op].ps
           bof_op == FirstWithProc(t1, heat_ops, EQUIPMENT["BOF"].proc_cd)
           bof_device == IF bof_op = NULL THEN NoDevice ELSE t1[bof_op].dev
       IN UNION {
            LET slots == CompletionSlots(t1, proc_name, completion_time + transfer_offset,
                           completion_time + max_transfer_gap_minutes, planned_duration,
                           IF bof_device # NoDevice /\ aligned
                           THEN aligned_device(bof_device, proc_name) ELSE NoDevice,
                           next_op)
            IN IF slots = {} THEN {t1}
               ELSE {StartIfReady(ApplySlot(t1, next_op, slot), next_op, slot, completion_time)
                       : slot \in slots}
            : transfer_offset \in TransferGaps, aligned \in AlignedDraws}

\* a loop body that forces completion only after max_operation_duration
ActiveBody_AfterMax(table, id, t) ==
  LET elapsed == t - table[id].rs
  IN IF table[id].rs = NULL \/ elapsed < min_operation_duration THEN {table}
     ELSE IF elapsed > max_operation_duration THEN _complete_operation(table, id, t)
     ELSE {table} \cup _complete_operation(table, id, t)

\* a processor that may complete a row as soon as it has started
ActiveBody_NoMinimum(table, id, t) ==
  LET elapsed == t - table[id].rs
  IN IF table[id].rs = NULL \/ elapsed < 1 THEN {table}
     ELSE IF elapsed >= max_operation_duration THEN _complete_operation(table, id, t)
     ELSE {table} \cup _complete_operation(table, id, t)

\* a processor that may complete a row one unit before min_operation_duration
ActiveBody_OneShort(table, id, t) ==
  LET elapsed == t - table[id].rs
  IN IF table[id].rs = NULL \/ elapsed < min_operation_duration - 1 THEN {table}
     ELSE IF elapsed >= max_operation_duration THEN _complete_operation(table, id, t)
     ELSE {table} \cup _complete_operation(table, id, t)

\* a processor that may put a row that has run long enough back to PENDING
ActiveBody_Requeue(table, id, t) ==
  LET elapsed == t - table[id].rs
  IN IF table[id].rs = NULL \/ elapsed < min_operation_duration THEN {table}
     ELSE {table, update_operation_status(table, id, PENDING, NULL, NULL, NoDevice)}

\* the loop body of process_active_operations for one ACTIVE row
ActiveBody(table, id, t) ==
  LET elapsed == t - table[id].rs
  IN IF table[id].rs = NULL \/ elapsed < min_operation_duration THEN {table}
     ELSE IF elapsed >= max_operation_duration THEN _complete_operation(table, id, t)
     ELSE {table} \cup _complete_operation(table, id, t)

StageIndex(proc_cd) == CHOOSE i \in 1..Len(PROCESS_FLOW) : EQUIPMENT[PROCESS_FLOW[i]].proc_cd = proc_cd

\* first stage: start when the plan time has arrived
PendingFirstStage(table, id, t) ==
  LET op == table[id]
      duration == op.pe - op.ps
      desired_start == Max2(op.ps, t)
      own == find_slot(table, desired_start, NULL, duration, <<op.dev>>, id, TRUE, TRUE)
      slots == IF own # {} THEN own
               ELSE find_slot(table, desired_start, NULL, duration, Devices("BOF"), id,
                              TRUE, TRUE)
  IN IF t < op.ps THEN {table}
     ELSE IF slots = {} THEN {table}
     ELSE {StartIfReady(ApplySlot(table, id, slot), id, slot, t) : slot \in slots}

\* a later stage started from the planned end of a predecessor that is not
\* COMPLETED
PendingLaterStage_Unchecked(table, id, t) ==
  LET op == table[id]
      idx == StageIndex(op.proc_cd)
      heat_ops == get_heat_operations(table, op.heat)
      prev_op == FirstWithProc(table, heat_ops, EQUIPMENT[PROCESS_FLOW[idx - 1]].proc_cd)
      prev_end == WinEnd(table[prev_op])
      slots == find_slot(table, Max2(op.ps, prev_end + min_transfer_gap_minutes),
                         prev_end + max_transfer_gap_minutes, op.pe - op.ps,
                         Devices(PROCESS_FLOW[idx]), id, TRUE, TRUE)
  IN IF prev_op = NULL \/ slots = {} THEN {table}
     ELSE {StartIfReady(ApplySlot(table, id, slot), id, slot, t) : slot \in slots}

\* a later stage that is ready as soon as its predecessor has ended
PendingLaterStage_NoTransfer(table, id, t) ==
  LET op == table[id]
      idx == StageIndex(op.proc_cd)
      heat_ops == get_heat_operations(table, op.heat)
      prev_proc_cd == EQUIPMENT[PROCESS_FLOW[idx - 1]].proc_cd
      prev_op == FirstWithProc(table, heat_ops, prev_proc_cd)
  IN IF prev_op = NULL \/ table[prev_op].status # COMPLETED \/ table[prev_op].re = NULL
     THEN {table}
     ELSE
       LET max_ready_time == table[prev_op].re + max_transfer_gap_minutes
           scheduled_start == Max2(op.ps, table[prev_op].re)
           duration == op.pe - op.ps
           slots == find_slot(table, scheduled_start, max_ready_time, duration,
                              Devices(PROCESS_FLOW[idx]), id, TRUE, TRUE)
       IN IF slots = {} THEN {table}
          ELSE {StartIfReady(ApplySlot(table, id, slot), id, slot, t) : slot \in slots}

\* later stage: the predecessor must be COMPLETED with a real end
PendingLaterStage(table, id, t) ==
  LET op == table[id]
      idx == StageIndex(op.proc_cd)
      heat_ops == get_heat_operations(table, op.heat)
      prev_proc_cd == EQUIPMENT[PROCESS_FLOW[idx - 1]].proc_cd
      prev_op == FirstWithProc(table, heat_ops, prev_proc_cd)
  IN IF prev_op = NULL \/ table[prev_op].status # COMPLETED \/ table[prev_op].re = NULL
     THEN {table}
     ELSE
       LET min_ready_time == table[prev_op].re + min_transfer_gap_minutes
           max_ready_time == table[prev_op].re + max_transfer_gap_minutes
           scheduled_start == Max2(op.ps, min_ready_time)
           duration == op.pe - op.ps
           slots == find_slot(table, scheduled_start, max_ready_time, duration,
                              Devices(PROCESS_FLOW[idx]), id, TRUE, TRUE)
       IN IF slots = {} THEN {table}
          ELSE {StartIfReady(ApplySlot(table, id, slot), id, slot, t) : slot \in slots}

\* the loop body of process_pending_operations for one PENDING row
PendingBody(table, id, t) ==
  IF StageIndex(table[id].proc_cd) = 1 THEN PendingFirstStage(table, id, t)
  ELSE PendingLaterStage(table, id, t)

-----------------------------------------------------------------------------
(* The tick loop (simulator.py): active rows, then pending rows, then      *)
(* possibly a new heat.                                                    *)

\* where the tick goes once the loop over the ACTIVE rows is done
\* a tick that goes from the ACTIVE rows straight to the new heat
AfterActive_SkipPending(table) == [pc |-> "newheat", queue |-> <<>>]

AfterActive(table) ==
  LET q == get_pending_operations(table)
  IN IF q = <<>> THEN [pc |-> "newheat", queue |-> <<>>] ELSE [pc |-> "pending", queue |-> q]

\* what the tick has done so far to the rows that existed when it began
NoMark == [status |-> FALSE, plan |-> FALSE]

Marks(m, old, new) ==
  [status |-> m.status \/ Len(new) # Len(old)
                \/ \E i \in 1..Len(old) : new[i].status # old[i].status,
   plan |-> m.plan \/ \E i \in 1..Len(old) : new[i].ps # old[i].ps \/ new[i].pe # old[i].pe]

TickBegin ==
  /\ pc = "idle"
  /\ \E d \in 1..cfg.step :
       /\ now + d <= cfg.max_now
       /\ now' = now + d
  /\ LET q == get_active_operations(ops)
         nxt == IF q = <<>> THEN AfterActive(ops) ELSE [pc |-> "active", queue |-> q]
     IN /\ pc' = nxt.pc
        /\ queue' = nxt.queue
  /\ ret' = NoCall
  /\ mark' = NoMark
  /\ UNCHANGED <<ops, seed, cfg, side>>

ProcessActive ==
  /\ pc = "active"
  /\ ops' \in ActiveBody(ops, Head(queue), now)
  /\ LET nxt == IF Tail(queue) = <<>> THEN AfterActive(ops')
                ELSE [pc |-> "active", queue |-> Tail(queue)]
     IN /\ pc' = nxt.pc
        /\ queue' = nxt.queue
  /\ mark' = Marks(mark, ops, ops')
  /\ UNCHANGED <<now, seed, ret, cfg, side>>

ProcessPending ==
  /\ pc = "pending"
  /\ ops' \in PendingBody(ops, Head(queue), now)
  /\ queue' = Tail(queue)
  /\ pc' = IF Tail(queue) = <<>> THEN "newheat" ELSE "pending"
  /\ mark' = Marks(mark, ops, ops')
  /\ UNCHANGED <<now, seed, ret, cfg, side>>

Heats(table) == {table[i].heat : i \in 1..Len(table)}

\* random.random() >= new_heat_probability
SkipNewHeat ==
  /\ pc = "newheat"
  /\ pc' = "idle"
  /\ UNCHANGED <<ops, now, queue, seed, ret, mark, cfg, side>>

\* random.random() < new_heat_probability
CreateNewHeat ==
  /\ pc = "newheat"
  /\ cfg.new_heat
  /\ Cardinality(Heats(ops)) < cfg.max_heats
  /\ \E r \in create_new_heat(ops, now) :
       /\ ops' = r.table
       /\ ret' = [called |-> TRUE, heat_no |-> r.heat_no, generated |-> r.generated]
  /\ pc' = "idle"
  /\ mark' = Marks(mark, ops, ops')
  /\ UNCHANGED <<now, queue, seed, cfg, side>>

\* WarningEngine.tick_realtime_warnings(now), called between two ticks of the
\* processor with the time of the clock
TickRealtimeWarnings ==
  /\ pc = "idle"
  /\ \E w \in tick_realtime_warnings(side.warnings, ops, Sec(now)) :
       side' = [side EXCEPT !.warnings = w]
  /\ UNCHANGED <<ops, now, pc, queue, seed, ret, mark, cfg>>

-----------------------------------------------------------------------------

InitCommon ==
  /\ ops = <<>>
  /\ now = cfg.span_past
  /\ pc = "seed"
  /\ queue = <<>>
  /\ seed = SeedStart(1)
  /\ ret = NoCall
  /\ mark = NoMark
  /\ side = NoSide

Init ==
  /\ cfg = [pools |-> [BOF |-> 1, LF |-> 1, CCM |-> 1],
            span_past |-> RunSpanPast, span_future |-> RunSpanFuture,
            step |-> MaxStep, max_now |-> MaxNow, new_heat |-> TRUE,
            max_heats |-> MaxHeats, conf |-> DefaultConfig]
  /\ InitCommon

Next ==
  \/ SeedIteration
  \/ TickBegin
  \/ ProcessActive
  \/ ProcessPending
  \/ SkipNewHeat
  \/ CreateNewHeat

Spec == Init /\ [][Next]_vars

\* The seeder alone, over a horizon that holds several heats of a lineage.
InitSeed ==
  /\ cfg = [pools |-> [BOF |-> 1, LF |-> 1, CCM |-> 1],
            span_past |-> SeedSpanPast, span_future |-> SeedSpanFuture,
            step |-> MaxStep, max_now |-> SeedSpanPast, new_heat |-> FALSE,
            max_heats |-> MaxHeats, conf |-> DefaultConfig]
  /\ InitCommon

NextSeed == SeedIteration

SpecSeed == InitSeed /\ [][NextSeed]_vars

\* The seeder attempt by attempt over a shorter horizon.  The seeder is one
\* sequential loop that runs until it returns: its next step is always taken.
InitTry ==
  /\ cfg = [pools |-> [BOF |-> 1, LF |-> 1, CCM |-> 1],
            span_past |-> TrySpanPast, span_future |-> TrySpanFuture,
            step |-> MaxStep, max_now |-> TrySpanPast, new_heat |-> FALSE,
            max_heats |-> MaxHeats, conf |-> DefaultConfig]
  /\ InitCommon

NextTry == SeedAttempt

SpecTry == InitTry /\ [][NextTry]_vars /\ WF_vars(SeedAttempt)

\* Ticks with new_heat_probability = 0 after a seeding that leaves a planned
\* first stage, the clock advancing by up to QuietStep between two ticks.
InitQuiet ==
  /\ cfg = [pools |-> [BOF |-> 1, LF |-> 1, CCM |-> 1],
            span_past |-> QuietSpanPast, span_future |-> QuietSpanFuture,
            step |-> QuietStep, max_now |-> QuietMaxNow, new_heat |-> FALSE,
            max_heats |-> MaxHeats, conf |-> [DefaultConfig EXCEPT !.max_operation_duration = QuietMaxDuration]]
  /\ InitCommon

NextQuiet ==
  \/ SeedIteration
  \/ TickBegin
  \/ ProcessActive
  \/ ProcessPending
  \/ SkipNewHeat

SpecQuiet == InitQuiet /\ [][NextQuiet]_vars

\* Ticks with new heats over pools of PoolSize devices per stage, with
\* aligned_route_probability = 1: every lineage is seeded with one heat.
InitPool ==
  /\ cfg = [pools |-> [BOF |-> PoolSize, LF |-> PoolSize, CCM |-> PoolSize],
            span_past |-> 0, span_future |-> 0,
            step |-> MaxStep, max_now |-> PoolMaxNow, new_heat |-> TRUE,
            max_heats |-> PoolMaxHeats,
            conf |-> [DefaultConfig EXCEPT !.max_operation_duration = PoolMaxDuration,
                                           !.aligned_route_probability = 100]]
  /\ InitCommon

NextPool ==
  \/ SeedIteration
  \/ TickBegin
  \/ ProcessActive
  \/ ProcessPending
  \/ SkipNewHeat
  \/ CreateNewHeat

SpecPool == InitPool /\ [][NextPool]_vars

\* Ticks and realtime warning ticks with the side tables followed.  Seeding
\* at an empty horizon stores one heat whose first stage starts now: for it
\* seed_partial_events_for_active_operation and
\* seed_partial_kpi_stats_for_active_operation return 0 (now <= window_start)
\* and no row is COMPLETED, so the side tables are empty when the ticks begin.
InitSide ==
  /\ cfg = [pools |-> [BOF |-> 1, LF |-> 1, CCM |-> 1],
            span_past |-> 0, span_future |-> 0,
            step |-> MaxStep, max_now |-> SideMaxNow, new_heat |-> TRUE,
            max_heats |-> SideMaxHeats,
            conf |-> [DefaultConfig EXCEPT !.max_operation_duration = SideMaxDuration,
                                           !.max_warnings_per_operation = SideMaxWarnings]]
  /\ InitCommon

NextSide ==
  \/ SeedIteration
  \/ TickBegin
  \/ ProcessActive
  \/ ProcessPending
  \/ SkipNewHeat
  \/ CreateNewHeat
  \/ TickRealtimeWarnings

SpecSide == InitSide /\ [][NextSide]_vars

-----------------------------------------------------------------------------
(* find_slot alone, called with arguments from bounded sets on tables from *)
(* a bounded set.  find_slot uses times only in sums, differences and      *)
(* comparisons, so the unit of time is free here.                          *)

\* a COMPLETED row with its real times, or a PENDING row with its plan only
SlotRow(device_no, plan_start, plan_end, proc_status) ==
  [heat |-> 1, proc_cd |-> EQUIPMENT["BOF"].proc_cd, dev |-> device_no, status |-> proc_status,
   ps |-> plan_start, pe |-> plan_end,
   rs |-> IF proc_status = PENDING THEN NULL ELSE plan_start,
   re |-> IF proc_status = PENDING THEN NULL ELSE plan_end]

\* the rows of the first device: at most two, in insertion order by start,
\* one window never inside another (as in every table the ticks produce)
SlotRowsFirst ==
  LET one == {SlotRow(Devices("BOF")[1], s, s + l, st) :
                s \in 0..SlotMaxStart, l \in 1..SlotMaxLen, st \in {COMPLETED, PENDING}}
  IN {<<>>} \cup {<<r>> : r \in one}
     \cup {p \in {<<a, b>> : a \in one, b \in one} : p[1].ps < p[2].ps /\ p[1].pe < p[2].pe}

\* the second device is empty or holds one COMPLETED window
SlotRowsSecond ==
  {<<>>} \cup {<<SlotRow(Devices("BOF")[2], s, s + SlotMaxLen, COMPLETED)>> : s \in {0, SlotMaxStart - 1}}

\* device A booked from t0 to t0 + 40 min, in units of five minutes
BookedTable == <<SlotRow(Devices("BOF")[1], 0, 8, COMPLETED)>>

SlotTables == {a \o b : a \in SlotRowsFirst, b \in SlotRowsSecond} \cup {BookedTable}

\* None
NoSlot == [device_no |-> NoDevice, plan_start |-> NULL, plan_end |-> NULL]

\* a search that books the slot it has found
StoreAfterFindSlot_Reserve(table, slot) ==
  IF slot.device_no = NoDevice THEN table
  ELSE insert_operation(table, 0, EQUIPMENT["BOF"].proc_cd, slot.device_no, PENDING,
                        slot.plan_start, slot.plan_end, NULL, NULL)

\* the table after a call of find_slot: its only access to the store is the
\* SELECT of get_device_operation_windows
StoreAfterFindSlot(table, slot) == table

\* the arguments of the call on the booked device: desired_start = t0 + 10 min,
\* duration = 20 min, no latest_start
BookedCall ==
  [desired_start |-> 2, latest_start |-> NULL, duration |-> 4,
   devices |-> SubSeq(Devices("BOF"), 1, 1), exclude_operation_id |-> NULL,
   include_pending_plans |-> TRUE, enforce_max_rest |-> TRUE]

SlotCalls ==
  {[desired_start |-> d, latest_start |-> IF slack = NULL THEN NULL ELSE d + slack,
    duration |-> l, devices |-> SubSeq(Devices("BOF"), 1, n), exclude_operation_id |-> x,
    include_pending_plans |-> ip, enforce_max_rest |-> mr] :
     d \in 0..SlotMaxDesired, slack \in {NULL} \cup 0..SlotMaxSlack, l \in 1..SlotMaxLen,
     n \in 1..Len(Devices("BOF")), x \in {NULL} \cup 1..SlotMaxLen,
     ip \in BOOLEAN, mr \in BOOLEAN}
  \cup {BookedCall}

\* one call of find_slot and what it returns
FindSlot ==
  /\ pc = "find"
  /\ \E c \in SlotCalls :
       LET slots == find_slot(ops, c.desired_start, c.latest_start, c.duration, c.devices,
                              c.exclude_operation_id, c.include_pending_plans,
                              c.enforce_max_rest)
       IN \E slot \in (IF slots = {} THEN {NoSlot} ELSE slots) :
            /\ ret' = [called |-> TRUE, args |-> c, slot |-> slot]
            /\ ops' = StoreAfterFindSlot(ops, slot)
  /\ pc' = "done"
  /\ UNCHANGED <<now, queue, seed, mark, cfg, side>>

InitSlot ==
  /\ cfg = [pools |-> [BOF |-> 2, LF |-> 1, CCM |-> 1],
            span_past |-> 0, span_future |-> 0,
            step |-> MaxStep, max_now |-> 0, new_heat |-> FALSE,
            max_heats |-> MaxHeats, conf |-> DefaultConfig]
  /\ ops \in SlotTables
  /\ now = 0
  /\ pc = "find"
  /\ queue = <<>>
  /\ seed = SeedStart(0)
  /\ ret = NoCall
  /\ mark = NoMark
  /\ side = NoSide

NextSlot == FindSlot

SpecSlot == InitSlot /\ [][NextSlot]_vars

-----------------------------------------------------------------------------
(* The seeding and generation functions of the side content alone, called  *)
(* on a window from a bounded set with the tables from a bounded set.  ret  *)
(* holds the arguments of the call and what it returned: a list of events  *)
(* or a count, both empty for a function that returns None.                *)

\* the calls: a heat, a stage with its first device and a window in time units
WindowCalls ==
  {[heat_no |-> 1, proc_cd |-> EQUIPMENT[p].proc_cd, device_no |-> EQUIPMENT[p].devices[1],
    window_start |-> a, window_end |-> b] :
     p \in {"BOF", "LF", "CCM"}, a \in 0..WindowMax, b \in 0..WindowMax}

\* tables that already hold one row of the heat of the calls
PresetSide ==
  [warnings |-> <<[heat |-> 1, proc_cd |-> EQUIPMENT["BOF"].proc_cd,
                   dev |-> EQUIPMENT["BOF"].devices[1], ws |-> 0, we |-> MinWarningSeconds]>>,
   events |-> <<[heat |-> 1, proc_cd |-> EQUIPMENT["BOF"].proc_cd,
                 dev |-> EQUIPMENT["BOF"].devices[1],
                 code |-> EVENT_SEQUENCE_CONFIGS["BOF"].start_sequence[1], t |-> 0]>>,
   kpi |-> <<[heat |-> 1, proc_cd |-> EQUIPMENT["BOF"].proc_cd,
              dev |-> EQUIPMENT["BOF"].devices[1], kpi_code |-> "K1", t |-> 0]>>]

SideTables == {NoSide, PresetSide}

\* contents of the KPI definition table: empty, a definition with limits for
\* every stage, and with a second definition that has no limits
KpiDefinitionTables ==
  LET With == [i \in 1..3 |-> [proc_cd |-> EQUIPMENT[PROCESS_FLOW[i]].proc_cd,
                               kpi_code |-> "K1", limits |-> TRUE]]
      Without == [i \in 1..3 |-> [proc_cd |-> EQUIPMENT[PROCESS_FLOW[i]].proc_cd,
                                  kpi_code |-> "K2", limits |-> FALSE]]
  IN {<<>>, With, With \o Without}

\* the row a call stands for
CallOperation(c) ==
  [heat |-> c.heat_no, proc_cd |-> c.proc_cd, dev |-> c.device_no,
   ps |-> c.window_start, pe |-> c.window_end, rs |-> NULL, re |-> NULL]

WindowReturn(function, c, events, count) ==
  [called |-> TRUE, function |-> function, args |-> c, events |-> events, count |-> count]

SeedHistoricalWarnings ==
  /\ pc = "call"
  /\ \E c \in WindowCalls :
       \E w \in seed_historical_warnings_for_completed_operation(
                  side.warnings, c.heat_no, c.proc_cd, c.device_no,
                  Sec(c.window_start), Sec(c.window_end)) :
         /\ side' = [side EXCEPT !.warnings = w]
         /\ ret' = WindowReturn("seed_historical_warnings_for_completed_operation", c, <<>>, 0)
  /\ pc' = "done"
  /\ UNCHANGED <<ops, now, queue, seed, mark, cfg>>

SeedHistoricalEvents ==
  /\ pc = "call"
  /\ \E c \in WindowCalls, force_cancel \in BOOLEAN, force_rework \in BOOLEAN :
       \E r \in seed_historical_events_for_completed_operation(
                  side.events, c.heat_no, c.proc_cd, c.device_no,
                  Sec(c.window_start), Sec(c.window_end), force_cancel, force_rework) :
         /\ side' = [side EXCEPT !.events = r.table]
         /\ ret' = WindowReturn("seed_historical_events_for_completed_operation", c,
                            r.result.events, Len(r.result.events))
  /\ pc' = "done"
  /\ UNCHANGED <<ops, now, queue, seed, mark, cfg>>

GenerateEventsForOperation ==
  /\ pc = "call"
  /\ \E c \in WindowCalls, force_cancel \in BOOLEAN, force_rework \in BOOLEAN :
       \E events \in generate_events_for_operation(CallOperation(c), force_cancel,
                                                   force_rework) :
         ret' = WindowReturn("generate_events_for_operation", c, events, Len(events))
  /\ pc' = "done"
  /\ UNCHANGED <<ops, now, queue, seed, mark, cfg, side>>

SeedHistoricalKpiStats ==
  /\ pc = "call"
  /\ \E c \in WindowCalls :
       \E r \in seed_historical_kpi_stats_for_completed_operation(
                  side.kpi, c.heat_no, c.proc_cd, c.device_no,
                  Sec(c.window_start), Sec(c.window_end)) :
         /\ side' = [side EXCEPT !.kpi = r.kpi]
         /\ ret' = WindowReturn("seed_historical_kpi_stats_for_completed_operation", c,
                            <<>>, r.count)
  /\ pc' = "done"
  /\ UNCHANGED <<ops, now, queue, seed, mark, cfg>>

InitWindow ==
  /\ cfg \in {[conf |-> [DefaultConfig EXCEPT !.max_warnings_per_operation = SideMaxWarnings],
               kpi |-> [KpiStatsEngineConfig EXCEPT
                          !.min_samples_per_operation = KpiMinSamples,
                          !.max_samples_per_operation = KpiMaxSamples],
               kpi_definitions |-> d] : d \in KpiDefinitionTables}
  /\ side \in SideTables
  /\ ops = <<>>
  /\ now = 0
  /\ pc = "call"
  /\ queue = <<>>
  /\ seed = SeedStart(0)
  /\ ret = NoCall
  /\ mark = NoMark

NextWindow ==
  \/ SeedHistoricalWarnings
  \/ SeedHistoricalEvents
  \/ GenerateEventsForOperation
  \/ SeedHistoricalKpiStats

SpecWindow == InitWindow /\ [][NextWindow]_vars

-----------------------------------------------------------------------------
(* Properties                                                              *)

Live(i) == ops[i].status # CANCELED

SameDevicePairs ==
  {p \in Ids \X Ids : p[1] # p[2] /\ ops[p[1]].dev = ops[p[2]].dev /\ Live(p[1]) /\ Live(p[2])}

Overlap(a, b) == WinStart(a) < WinEnd(b) /\ WinStart(b) < WinEnd(a)

\* C1: after seeding and after every tick, no two non-canceled items of a
\* device have overlapping effective windows.
C1_NoOverlap ==
  pc = "idle" => \A p \in SameDevicePairs : ~Overlap(ops[p[1]], ops[p[2]])

\* C2: after seeding and after every tick, two non-canceled items of a device
\* are separated by at least min_rest.
C2_MinRest ==
  pc = "idle" =>
    \A p \in SameDevicePairs :
      \/ WinStart(ops[p[2]]) - WinEnd(ops[p[1]]) >= min_rest_duration_minutes
      \/ WinStart(ops[p[1]]) - WinEnd(ops[p[2]]) >= min_rest_duration_minutes

\* C6: COMPLETED rows have a real end not after now, ACTIVE rows a real start
\* and no real end, PENDING rows neither.
C6_StatusTimes ==
  \A i \in Ids :
    /\ ops[i].status = COMPLETED => (ops[i].re # NULL /\ ops[i].re <= now)
    /\ ops[i].status = ACTIVE => (ops[i].rs # NULL /\ ops[i].re = NULL)
    /\ ops[i].status = PENDING => (ops[i].rs = NULL /\ ops[i].re = NULL)

\* the ticks have completed a row after its planned end and started a
\* second-stage row, and a PENDING row remains
C6_Witness ==
  /\ pc = "idle"
  /\ \E i \in Ids : ops[i].status = COMPLETED /\ ops[i].re > ops[i].pe
  /\ \E i \in Ids : /\ ops[i].status = ACTIVE /\ StageIndex(ops[i].proc_cd) = 2
                     /\ ops[i].rs > cfg.span_past
  /\ \E i \in Ids : ops[i].status = PENDING

\* C7: a CANCELED stage has only CANCELED stages after it in its heat.
C7_CancelPropagates ==
  \A i \in Ids, j \in Ids :
    (/\ ops[i].heat = ops[j].heat
     /\ ops[i].status = CANCELED
     /\ StageIndex(ops[j].proc_cd) > StageIndex(ops[i].proc_cd))
    => ops[j].status = CANCELED

\* a seeded heat canceled in its second stage: first stage COMPLETED, second
\* CANCELED with the time of the cancel event, third CANCELED without times
C7_Witness ==
  \E i \in Ids, j \in Ids, k \in Ids :
    /\ ops[i].heat = ops[j].heat /\ ops[j].heat = ops[k].heat
    /\ StageIndex(ops[i].proc_cd) = 1 /\ ops[i].status = COMPLETED
    /\ StageIndex(ops[j].proc_cd) = 2 /\ ops[j].status = CANCELED /\ ops[j].re # NULL
    /\ StageIndex(ops[k].proc_cd) = 3 /\ ops[k].status = CANCELED /\ ops[k].re = NULL

\* b is the next non-canceled row after a on the device of a
Consecutive(a, b) ==
  /\ a # b /\ ops[a].dev = ops[b].dev /\ Live(a) /\ Live(b)
  /\ WinStart(ops[a]) <= WinStart(ops[b])
  /\ ~\E c \in Ids : /\ c # a /\ c # b /\ ops[c].dev = ops[a].dev /\ Live(c)
                     /\ WinStart(ops[a]) <= WinStart(ops[c])
                     /\ WinStart(ops[c]) <= WinStart(ops[b])

\* C10: in the seeded timeline, consecutive non-canceled windows of a device
\* are at most max_rest apart.
C10_SeededMaxRest ==
  pc = "idle" =>
    \A a \in Ids, b \in Ids :
      Consecutive(a, b) => WinStart(ops[b]) - WinEnd(ops[a]) <= max_rest_duration_minutes

\* the rows a step has added
NewIds == (Len(ops) + 1)..Len(ops')

\* C8: a call of create_new_heat that returns None leaves the table as it was
\* and generates no heat number; a call that returns a heat number has
\* generated it, it is a number no row carried before, and the call has
\* added exactly one row per stage of PROCESS_FLOW, each with that number,
\* and changed no other row.
C8_AllOrNothing ==
  [][(pc = "newheat" /\ ret'.called) =>
       IF ret'.heat_no = NULL
       THEN ops' = ops /\ ~ret'.generated
       ELSE /\ ret'.generated
            /\ ret'.heat_no \notin Heats(ops)
            /\ Len(ops') = Len(ops) + Len(PROCESS_FLOW)
            /\ SubSeq(ops', 1, Len(ops)) = ops
            /\ \A k \in 1..Len(PROCESS_FLOW) :
                 /\ ops'[Len(ops) + k].heat = ret'.heat_no
                 /\ ops'[Len(ops) + k].proc_cd = EQUIPMENT[PROCESS_FLOW[k]].proc_cd]_vars

\* create_new_heat has found a first-stage slot in a table that holds rows and
\* has returned None
C8_Witness ==
  /\ pc = "idle" /\ ret.called /\ ret.heat_no = NULL
  /\ \E i \in Ids : ops[i].status = PENDING
  /\ \A i \in Ids : StageIndex(ops[i].proc_cd) = 1 => ops[i].status = COMPLETED /\ now - ops[i].re = 1

\* C9: in the rows a seeding iteration or create_new_heat adds, each stage
\* starts at least min_transfer_gap and at most max_transfer_gap after the
\* planned end of the stage before it.
C9_TransferGaps ==
  [][\A i \in NewIds, j \in NewIds :
       (/\ ops'[i].heat = ops'[j].heat
        /\ StageIndex(ops'[j].proc_cd) = StageIndex(ops'[i].proc_cd) + 1)
       => /\ ops'[j].ps - ops'[i].pe >= min_transfer_gap_minutes
          /\ ops'[j].ps - ops'[i].pe <= max_transfer_gap_minutes]_vars

\* create_new_heat has stored a heat beside a seeded one, its second stage
\* max_transfer_gap after its first
C9_Witness ==
  /\ ret.called /\ ret.heat_no # NULL /\ ret.heat_no > 1
  /\ \E i \in Ids, j \in Ids :
       /\ ops[i].heat = ret.heat_no /\ ops[j].heat = ret.heat_no
       /\ StageIndex(ops[i].proc_cd) = 1 /\ StageIndex(ops[j].proc_cd) = 2
       /\ ops[j].ps - ops[i].pe = max_transfer_gap_minutes

\* "far longer than max_rest": at least twice max_rest
IdleFar == 2 * max_rest_duration_minutes

\* a first-stage PENDING row whose plan_start has passed, on a device that
\* holds earlier rows, none ACTIVE, all ended at least IdleFar ago
ReadyAfterIdle(id) ==
  /\ ops[id].status = PENDING
  /\ StageIndex(ops[id].proc_cd) = 1
  /\ ops[id].ps <= now
  /\ \E j \in Ids \ {id} : ops[j].dev = ops[id].dev
  /\ \A j \in Ids \ {id} :
       ops[j].dev = ops[id].dev =>
         (ops[j].status # ACTIVE /\ WinEnd(ops[j]) + IdleFar <= now)

\* C3: the loop body of process_pending_operations starts a ready first-stage
\* row on its own device when that device has been idle for at least IdleFar.
C3_StartsAfterIdle ==
  [][(pc = "pending" /\ ReadyAfterIdle(Head(queue))) =>
       LET id == Head(queue)
       IN /\ ops'[id].status = ACTIVE
          /\ ops'[id].rs = now
          /\ ops'[id].re = NULL
          /\ ops'[id].dev = ops[id].dev]_vars

\* C4: once seeding is over, no step of a tick changes plan_start or plan_end
\* of a row (new-heat creation disabled).
C4_PlansImmutable ==
  [][pc # "seed" =>
       \A i \in Ids : ops'[i].ps = ops[i].ps /\ ops'[i].pe = ops[i].pe]_vars

\* C5: a tick that changes no status leaves every plan_start and plan_end
\* as it found them.
C5_NoSpuriousReplan ==
  (pc = "idle" /\ mark.plan) => mark.status

\* no window of a device lies inside another window of that device
NoWindowInside ==
  \A a \in Ids, b \in Ids :
    (a # b /\ ops[a].dev = ops[b].dev)
    => ~(WinStart(ops[a]) <= WinStart(ops[b]) /\ WinEnd(ops[b]) <= WinEnd(ops[a]))

\* C17: process_active_operations completes, with real_end = now, the ACTIVE
\* row it visits when now - real_start >= max_operation_duration, and when its
\* loop is over no ACTIVE row is that old.
C17_ForcedCompletion ==
  [][pc = "active" =>
       /\ (/\ ops[Head(queue)].status = ACTIVE
           /\ ops[Head(queue)].rs # NULL
           /\ now - ops[Head(queue)].rs >= max_operation_duration)
          => (ops'[Head(queue)].status = COMPLETED /\ ops'[Head(queue)].re = now)
       /\ pc' # "active" =>
            \A i \in 1..Len(ops') :
              ops'[i].status = ACTIVE => now - ops'[i].rs < max_operation_duration]_vars

\* a tick has completed a row that had been ACTIVE for more than
\* max_operation_duration
C17_Witness ==
  /\ pc # "seed" /\ now > cfg.span_past
  /\ \E i \in Ids : /\ ops[i].status = COMPLETED /\ ops[i].re = now
                     /\ ops[i].re - ops[i].rs > max_operation_duration

\* C18: a row of a later stage that is ACTIVE or COMPLETED has the row of the
\* stage before it, in the same heat, COMPLETED with a real end.
C18_PredecessorCompleted ==
  \A i \in Ids, j \in Ids :
    (/\ ops[i].heat = ops[j].heat
     /\ StageIndex(ops[j].proc_cd) = StageIndex(ops[i].proc_cd) + 1
     /\ ops[j].status \in {ACTIVE, COMPLETED})
    => (ops[i].status = COMPLETED /\ ops[i].re # NULL)

\* the ticks have completed a first stage and later started the second stage
\* of its heat
C18_Witness ==
  \E i \in Ids, j \in Ids :
    /\ ops[i].heat = ops[j].heat
    /\ StageIndex(ops[i].proc_cd) = 1 /\ StageIndex(ops[j].proc_cd) = 2
    /\ ops[i].status = COMPLETED /\ ops[i].re > cfg.span_past
    /\ ops[j].status = ACTIVE /\ ops[j].rs > ops[i].re

\* the slots the search of process_pending_operations for row id finds when
\* PENDING rows without a real start are not obstacles
UnobstructedSlots(id) ==
  LET op == ops[id]
      idx == StageIndex(op.proc_cd)
      duration == op.pe - op.ps
      heat_ops == get_heat_operations(ops, op.heat)
  IN IF idx = 1
     THEN IF now < op.ps THEN {}
          ELSE LET own == find_slot(ops, Max2(op.ps, now), NULL, duration, <<op.dev>>, id,
                                    FALSE, TRUE)
               IN IF own # {} THEN own
                  ELSE find_slot(ops, Max2(op.ps, now), NULL, duration, Devices("BOF"), id,
                                 FALSE, TRUE)
     ELSE LET prev_op == FirstWithProc(ops, heat_ops, EQUIPMENT[PROCESS_FLOW[idx - 1]].proc_cd)
          IN IF prev_op = NULL \/ ops[prev_op].status # COMPLETED \/ ops[prev_op].re = NULL
             THEN {}
             ELSE find_slot(ops, Max2(op.ps, ops[prev_op].re + min_transfer_gap_minutes),
                            ops[prev_op].re + max_transfer_gap_minutes, duration,
                            Devices(PROCESS_FLOW[idx]), id, FALSE, TRUE)

\* row id would be started now on a free device if unstarted plans were not
\* obstacles
ReadyUnobstructed(id) ==
  \E slot \in UnobstructedSlots(id) :
    slot.plan_start <= now /\ _is_device_available(ops, slot.device_no)

\* C19: when process_pending_operations visits a row that would be started
\* now if the unstarted plans of other rows were not obstacles, it starts it.
C19_PlansNoObstacle ==
  [][(pc = "pending" /\ ReadyUnobstructed(Head(queue)))
       => ops'[Head(queue)].status = ACTIVE]_vars

\* C20: a call of create_new_heat that returns a heat number has stored the
\* first stage ACTIVE with plan_start = real_start = now and no real end, and
\* every later stage PENDING with no real start and no real end.
C20_NewHeatStatuses ==
  [][(pc = "newheat" /\ ret'.called /\ ret'.heat_no # NULL) =>
       /\ \E i \in NewIds : StageIndex(ops'[i].proc_cd) = 1
       /\ \A i \in NewIds :
            IF StageIndex(ops'[i].proc_cd) = 1
            THEN /\ ops'[i].status = ACTIVE
                 /\ ops'[i].rs = now /\ ops'[i].ps = now /\ ops'[i].re = NULL
            ELSE /\ ops'[i].status = PENDING
                 /\ ops'[i].rs = NULL /\ ops'[i].re = NULL]_vars

\* create_new_heat has just stored a heat beside the seeded one: its first
\* stage is ACTIVE since now and its other stages are PENDING
C20_Witness ==
  /\ pc = "idle" /\ ret.called /\ ret.heat_no # NULL
  /\ Cardinality(Heats(ops)) > 1
  /\ \E i \in Ids, j \in Ids :
       /\ ops[i].heat = ret.heat_no /\ ops[j].heat = ret.heat_no
       /\ ops[i].status = ACTIVE /\ ops[i].rs = now
       /\ StageIndex(ops[j].proc_cd) = Len(PROCESS_FLOW) /\ ops[j].status = PENDING

\* C21: a seeded stage that is not canceled is COMPLETED with its planned
\* times as real times when its plan_end is not after now, ACTIVE with
\* real_start = plan_start and no real_end when its window straddles now, and
\* PENDING without real times when its window lies after now.
C21_SeededStatus ==
  \A i \in Ids :
    Live(i) =>
      /\ ops[i].pe <= now =>
           ops[i].status = COMPLETED /\ ops[i].rs = ops[i].ps /\ ops[i].re = ops[i].pe
      /\ (ops[i].ps <= now /\ now < ops[i].pe) =>
           ops[i].status = ACTIVE /\ ops[i].rs = ops[i].ps /\ ops[i].re = NULL
      /\ now < ops[i].ps =>
           ops[i].status = PENDING /\ ops[i].rs = NULL /\ ops[i].re = NULL

\* the seeded timeline holds a stage that ends exactly at now, a stage that
\* starts exactly at now and a stage that lies after now
C21_Witness ==
  /\ pc = "idle"
  /\ \E i \in Ids : Live(i) /\ ops[i].pe = now
  /\ \E i \in Ids : Live(i) /\ ops[i].ps = now
  /\ \E i \in Ids : Live(i) /\ ops[i].ps > now

\* rows of a heat in a stage
StageRows(heat_no, k) ==
  {i \in Ids : ops[i].heat = heat_no /\ StageIndex(ops[i].proc_cd) = k}

\* C22: every heat number of the seeded store has exactly one row in each
\* stage of the flow, whether or not iterations ended without placing a heat.
C22_WholeWorkflows ==
  \A h \in Heats(ops) : \A k \in 1..Len(PROCESS_FLOW) : Cardinality(StageRows(h, k)) = 1

\* seeding is over, and between two heats placed one after the other on a
\* line more than max_rest passed on the first-stage device: an iteration in
\* between ended without placing a heat
C22_Witness ==
  /\ pc = "idle"
  /\ \E a \in Ids, b \in Ids :
       /\ StageIndex(ops[a].proc_cd) = 1 /\ ops[b].heat = ops[a].heat + 1
       /\ ops[a].dev = ops[b].dev /\ StageIndex(ops[b].proc_cd) = 1
       /\ ops[b].ps - ops[a].pe > max_rest_duration_minutes
  /\ \E i \in Ids : ops[i].status = CANCELED

\* C23: seeding terminates: no iteration makes more than 30 placement
\* attempts, every iteration moves the cursor forward, and the seeder
\* eventually returns.
C23_SeedingTerminates ==
  /\ [](pc = "seed" => seed.attempt < MaxAttempts)
  /\ [][seed'.line = seed.line =>
          (seed'.cursor > seed.cursor
           \/ (seed'.cursor = seed.cursor /\ seed'.attempt = seed.attempt + 1))]_vars
  /\ <>(pc = "idle")

\* a heat is stored and twenty-nine attempts to place the next one have
\* failed: the last attempt of the iteration is at hand
C23_Witness ==
  pc = "seed" /\ Len(ops) > 0 /\ seed.attempt = MaxAttempts - 1

\* the time between two ticks beyond one time unit: a row is started and
\* completed at a tick, at most this long after the instant it is due
TickTolerance == cfg.step - 1

C25_FreshHeatNo ==
  [][Len(ops') > Len(ops) =>
       \E h \in Heats(ops') :
         /\ \A i \in NewIds : ops'[i].heat = h
         /\ \A j \in Ids : ops[j].heat < h /\ ops'[j].heat = ops[j].heat]_vars

\* create_new_heat has stored a heat beside a seeded one and returned its
\* number, the greatest in the store
C25_Witness ==
  /\ ret.called /\ ret.generated /\ ret.heat_no >= 2
  /\ Cardinality(Heats(ops)) = ret.heat_no
  /\ \A h \in Heats(ops) : h <= ret.heat_no
  /\ Cardinality(StageRows(ret.heat_no, 1)) = 1

\* C26: a tick evaluates every ACTIVE row for completion before it considers
\* a PENDING row, and attempts a new heat only after both: the pending phase
\* begins when the last ACTIVE row has been evaluated, no PENDING row is
\* started before, no row that has run for max_duration is left ACTIVE while
\* PENDING rows are considered, and create_new_heat is called only after the
\* last PENDING row.
C26_TickOrder ==
  [][/\ pc' = "pending" =>
          \/ pc = "pending" /\ queue' = Tail(queue)
          \/ pc = "active" /\ Len(queue) = 1
          \/ pc = "idle" /\ get_active_operations(ops) = <<>>
     /\ pc' = "newheat" =>
          \/ pc = "pending" /\ Len(queue) = 1
          \/ pc = "active" /\ Len(queue) = 1 /\ get_pending_operations(ops') = <<>>
          \/ /\ pc = "idle" /\ get_active_operations(ops) = <<>>
             /\ get_pending_operations(ops) = <<>>
     /\ pc \in {"pending", "newheat"} =>
          \A i \in Ids : ops[i].status = ACTIVE =>
                           now - ops[i].rs < max_operation_duration
     /\ pc = "active" =>
          \A i \in Ids : ops[i].status = PENDING => ops'[i].status = PENDING
     /\ (ret'.called /\ ~ret.called) => pc = "newheat"]_vars

\* the tick has completed a row, started another and reached the new heat
C26_Witness ==
  /\ pc = "newheat" /\ now > cfg.span_past
  /\ \E i \in Ids : ops[i].status = COMPLETED /\ ops[i].re = now
  /\ \E i \in Ids : ops[i].status = ACTIVE /\ ops[i].rs = now

\* the row of stage k among the rows a step has added
NewStageRow(k) == CHOOSE i \in NewIds : StageIndex(ops'[i].proc_cd) = k

\* the aligned device alone offers no slot to the row for some transfer
\* offset with which the whole pool offers the slot the row has got
AlignedInfeasible(row, prev_end, preferred_device) ==
  \E transfer_offset \in TransferGaps :
    /\ find_slot(ops, prev_end + transfer_offset, prev_end + max_transfer_gap_minutes,
                 row.pe - row.ps, <<preferred_device>>, NULL, TRUE, TRUE) = {}
    /\ [device_no |-> row.dev, plan_start |-> row.ps, plan_end |-> row.pe]
         \in find_slot(ops, prev_end + transfer_offset, prev_end + max_transfer_gap_minutes,
                       row.pe - row.ps, Devices(_get_process_name(row.proc_cd)),
                       NULL, TRUE, TRUE)

\* C27: with aligned_route_probability = 1, create_new_heat places a later
\* stage on a device other than the aligned one only when the aligned device
\* has no feasible slot inside the transfer window.
C27_AlignedRouting ==
  [][(aligned_route_probability >= 100 /\ pc = "newheat" /\ Len(ops') > Len(ops)) =>
       \A k \in 2..Len(PROCESS_FLOW) :
         LET row == ops'[NewStageRow(k)]
             prev == ops'[NewStageRow(k - 1)]
             preferred_device == aligned_device(ops'[NewStageRow(1)].dev, PROCESS_FLOW[k])
         IN row.dev # preferred_device =>
              AlignedInfeasible(row, prev.pe, preferred_device)]_vars

\* create_new_heat has placed the second stage of a heat away from the
\* aligned device and its third stage on the aligned device
C27_Witness ==
  /\ ret.called /\ ret.generated /\ aligned_route_probability >= 100
  /\ \E i \in Ids, j \in Ids, k \in Ids :
       /\ ops[i].heat = ret.heat_no /\ StageIndex(ops[i].proc_cd) = 1
       /\ ops[j].heat = ret.heat_no /\ StageIndex(ops[j].proc_cd) = 2
       /\ ops[k].heat = ret.heat_no /\ StageIndex(ops[k].proc_cd) = 3
       /\ ops[j].dev # aligned_device(ops[i].dev, "LF")
       /\ ops[k].dev = aligned_device(ops[i].dev, "CCM")

-----------------------------------------------------------------------------
(* Properties of the side content (SpecSide)                               *)

\* ids of the events of a row: of its heat, process and device, inside its
\* effective window
OperationEvents(table, operation) ==
  get_operation_events(table, operation.heat, operation.proc_cd, operation.dev,
                       Sec(WinStart(operation)), Sec(WinEnd(operation)))

\* how often a code occurs among the events with the given ids
CodeCount(table, ids, code) ==
  Cardinality({k \in 1..Len(ids) : table[ids[k]].code = code})

\* C28: when the processor completes an ACTIVE row, every end-sequence event
\* code of the row's stage occurs exactly once among the row's events
\* afterwards.
C28_EndEventsOnce ==
  [][\A i \in Ids :
       (pc = "active" /\ ops[i].status = ACTIVE /\ ops'[i].status = COMPLETED)
         => LET end_sequence ==
                  EVENT_SEQUENCE_CONFIGS[_get_process_name(ops[i].proc_cd)].end_sequence
                ids == OperationEvents(side'.events, ops'[i])
            IN \A k \in 1..Len(end_sequence) :
                 CodeCount(side'.events, ids, end_sequence[k]) = 1]_vars

\* C29: after any sequence of realtime warning ticks, no row has more than
\* max_warnings_per_operation warnings attached to its window (the warnings
\* of its heat, process and device that start inside the window).
C29_WarningCap ==
  \A i \in Ids : OperationWarningCount(side.warnings, ops[i]) <= max_warnings_per_operation

\* realtime ticks have filled the window of a row up to the cap, and the row
\* is still ACTIVE inside its plan, so that a further tick visits it
C29_Witness ==
  \E i \in Ids :
    /\ ops[i].status = ACTIVE
    /\ Sec(now) <= Sec(ops[i].pe)
    /\ pc = "idle"
    /\ max_warnings_per_operation > 0
    /\ OperationWarningCount(side.warnings, ops[i]) = max_warnings_per_operation

-----------------------------------------------------------------------------
(* Properties of the seeding and generation functions (SpecWindow)         *)

\* C30: a seeding or generation function of the side content called with
\* window_end <= window_start inserts no row and returns an empty list of
\* events and a zero count.
C30_DegenerateWindows ==
  [][(pc = "call" /\ pc' = "done" /\ ret'.args.window_end <= ret'.args.window_start)
       => (side' = side /\ ret'.events = <<>> /\ ret'.count = 0)]_vars

\* a call with an end before the start has returned, on tables that hold rows
C30_Witness ==
  /\ pc = "done"
  /\ ret.called
  /\ ret.function = "generate_events_for_operation"
  /\ ret.args.window_end < ret.args.window_start
  /\ side = PresetSide

-----------------------------------------------------------------------------
(* Properties of find_slot (SpecSlot): ret holds the arguments of the call *)
(* and the slot returned.                                                  *)

Returned == pc = "done" /\ ret.slot # NoSlot

\* the windows the call has read on a device
CallWindows(device_no) ==
  SeqToSet(_get_device_windows(ops, device_no, ret.args.exclude_operation_id,
                               ret.args.include_pending_plans))

\* a window of duration at start keeps min_rest to the window w
KeepsRest(start, duration, w) ==
  \/ w[2] + min_rest_duration_minutes <= start
  \/ start + duration + min_rest_duration_minutes <= w[1]

SlotTimes == 0..(SlotMaxDesired + SlotMaxStart + SlotMaxLen + max_rest_duration_minutes)

\* start satisfies every bound of the call on the device: desired_start,
\* latest_start, min_rest to every window and, when enforced, max_rest to the
\* window before and to the window after
Admissible(device_no, start) ==
  LET a == ret.args
      before == {w \in CallWindows(device_no) : w[2] <= start}
      after == {w \in CallWindows(device_no) : start + a.duration <= w[1]}
  IN /\ start >= a.desired_start
     /\ a.latest_start # NULL => start <= a.latest_start
     /\ \A w \in CallWindows(device_no) : KeepsRest(start, a.duration, w)
     /\ a.enforce_max_rest =>
          /\ \A w \in before :
               (\A v \in before : v[2] <= w[2])
               => start <= w[2] + max_rest_duration_minutes
          /\ \A w \in after :
               (\A v \in after : w[1] <= v[1])
               => w[1] - (start + a.duration) <= max_rest_duration_minutes

C14_SlotWithinBounds ==
  Returned =>
    /\ ret.slot.plan_start >= ret.args.desired_start
    /\ ret.args.latest_start # NULL => ret.slot.plan_start <= ret.args.latest_start
    /\ ret.slot.plan_end = ret.slot.plan_start + ret.args.duration
    /\ ret.slot.device_no \in SeqToSet(ret.args.devices)

\* a slot returned at latest_start, later than desired_start
C14_Witness ==
  /\ Returned
  /\ ret.args.latest_start # NULL
  /\ ret.slot.plan_start = ret.args.latest_start
  /\ ret.slot.plan_start > ret.args.desired_start

\* C15: the call with desired_start = t0 + 10 min and duration = 20 min on
\* the device booked from t0 to t0 + 40 min returns no slot.
C15_BookedInfeasible ==
  (pc = "done" /\ ops = BookedTable /\ ret.args = BookedCall) => ret.slot = NoSlot

-----------------------------------------------------------------------------
(* Progress of ready rows (SpecLive)                                       *)

\* The run loop of the simulator under fairness: the loop never stops
\* ticking while the clock can advance (WF on TickBegin), and every tick
\* that begins runs its phases to the end, each being a loop over a
\* finite list of rows, so the loop is back at its sleep again and again.
InitLive ==
  /\ cfg = [pools |-> [BOF |-> 1, LF |-> 1, CCM |-> 1],
            span_past |-> QuietSpanPast, span_future |-> QuietSpanFuture,
            step |-> QuietStep, max_now |-> LiveMaxNow, new_heat |-> FALSE,
            max_heats |-> MaxHeats, conf |-> [DefaultConfig EXCEPT !.max_operation_duration = LiveMaxDuration]]
  /\ InitCommon

SpecLive == InitLive /\ [][NextQuiet]_vars /\ WF_vars(TickBegin) /\ []<>(pc = "idle")

\* the start condition of a PENDING row: plan_start has passed (first
\* stage), the predecessor is COMPLETED (later stage)
StartConditionMet(i) ==
  /\ ops[i].status = PENDING
  /\ IF StageIndex(ops[i].proc_cd) = 1 THEN ops[i].ps <= now
     ELSE \E j \in Ids : /\ ops[j].heat = ops[i].heat
                         /\ StageIndex(ops[j].proc_cd) = StageIndex(ops[i].proc_cd) - 1
                         /\ ops[j].status = COMPLETED
                         /\ ops[j].re # NULL

\* C31: no permanent stall. While ticks keep occurring and the clock keeps
\* advancing, a PENDING row whose start condition is met between two ticks
\* is eventually set ACTIVE. The clock of the model stops at LiveMaxNow, so
\* the rows judged are those ready while at least LiveSlack units of clock
\* are left.
C31_NoPermanentStall ==
  \A i \in 1..(MaxHeats * Len(PROCESS_FLOW)) :
    (i \in Ids /\ pc = "idle" /\ StartConditionMet(i) /\ now + LiveSlack <= cfg.max_now)
      ~> (i \in Ids /\ ops[i].status = ACTIVE)

-----------------------------------------------------------------------------
(* Backfill of one workflow by the seeder (SpecBackfill)                   *)

\* the stages list of one heat on the first lineage: durations of
\* min_operation_duration and transfers of min_transfer_gap from start_time 0
BackfillStages ==
  LET d == DefaultConfig.min_operation_duration
      g == DefaultConfig.min_transfer_gap_minutes
      W(k) == (k - 1) * (d + g)
  IN [k \in 1..Len(PROCESS_FLOW) |->
        [proc_cd |-> EQUIPMENT[PROCESS_FLOW[k]].proc_cd,
         dev |-> EQUIPMENT[PROCESS_FLOW[k]].devices[1],
         ps |-> W(k), pe |-> W(k) + d]]

\* One iteration of the stage loop of seed_initial_timeline: the status of
\* the stage, its row, and for a COMPLETED stage the historical warnings,
\* the historical events, the cancel override when the events hold a cancel
\* event (real_end = cancel_event_time, in whole units) and the historical
\* KPI statistics.  The heats of SpecBackfill are seeded with now in a gap
\* between two stages, so that no stage is ACTIVE.
SeedStage ==
  /\ pc = "stage"
  /\ LET stage_idx == seed.stage_idx
         s == seed.stages[stage_idx]
         canceled == seed.canceled_from_stage # 0 /\ stage_idx >= seed.canceled_from_stage
         c == IF canceled THEN [status |-> CANCELED, rs |-> NULL, re |-> NULL]
              ELSE Classify(s.ps, s.pe, now)
         t1 == insert_operation(ops, seed.heat_no, s.proc_cd, s.dev, c.status, s.ps, s.pe,
                                c.rs, c.re)
     IN /\ c.status # ACTIVE
        /\ IF c.status = COMPLETED
           THEN \E w \in seed_historical_warnings_for_completed_operation(
                           side.warnings, seed.heat_no, s.proc_cd, s.dev, Sec(s.ps), Sec(s.pe)) :
                \E event_result \in seed_historical_events_for_completed_operation(
                           side.events, seed.heat_no, s.proc_cd, s.dev, Sec(s.ps), Sec(s.pe),
                           FALSE, FALSE) :
                \E k \in seed_historical_kpi_stats_for_completed_operation(
                           side.kpi, seed.heat_no, s.proc_cd, s.dev, Sec(s.ps), Sec(s.pe)) :
                  /\ ops' = IF event_result.result.has_cancel
                            THEN update_operation_status(t1, Len(t1), CANCELED, NULL,
                                   event_result.result.cancel_event_time \div UnitSeconds,
                                   NoDevice)
                            ELSE t1
                  /\ side' = [warnings |-> w, events |-> event_result.table, kpi |-> k.kpi]
                  /\ seed' = [seed EXCEPT !.stage_idx = @ + 1,
                                          !.canceled_from_stage =
                                             IF event_result.result.has_cancel THEN stage_idx
                                             ELSE @]
                  /\ ret' = [called |-> TRUE, stage_idx |-> stage_idx,
                             has_cancel |-> event_result.result.has_cancel]
           ELSE /\ ops' = t1
                /\ side' = side
                /\ seed' = [seed EXCEPT !.stage_idx = @ + 1]
                /\ ret' = [called |-> TRUE, stage_idx |-> stage_idx, has_cancel |-> FALSE]
        /\ pc' = IF stage_idx = Len(seed.stages) THEN "done" ELSE "stage"
  /\ UNCHANGED <<now, queue, mark, cfg>>

\* The seeder at a heat whose first stage, or whose first two stages, ended
\* before now.
InitBackfill ==
  /\ cfg = [conf |-> [DefaultConfig EXCEPT !.max_warnings_per_operation = BackfillMaxWarnings],
            kpi |-> [KpiStatsEngineConfig EXCEPT
                       !.min_samples_per_operation = KpiMinSamples,
                       !.max_samples_per_operation = KpiMinSamples],
            kpi_definitions |-> CHOOSE d \in KpiDefinitionTables : Len(d) = Len(PROCESS_FLOW)]
  /\ side = NoSide
  /\ ops = <<>>
  /\ now \in {BackfillStages[1].pe + 1, BackfillStages[2].pe + 1}
  /\ pc = "stage"
  /\ queue = <<>>
  /\ seed = [heat_no |-> 1, stages |-> BackfillStages, stage_idx |-> 1,
             canceled_from_stage |-> 0]
  /\ ret = NoCall
  /\ mark = NoMark

NextBackfill == SeedStage

SpecBackfill == InitBackfill /\ [][NextBackfill]_vars

\* the rows of a side table that belong to the stored row i
RowsOf(table, i) ==
  {j \in 1..Len(table) : /\ table[j].heat = ops[i].heat
                         /\ table[j].proc_cd = ops[i].proc_cd
                         /\ table[j].dev = ops[i].dev}

\* C32: once the backfill of stage K of a workflow has found a cancel
\* event, nothing more is generated for stage K and nothing at all for the
\* later stages: the canceled stage K (the one with a real end) has no KPI
\* statistics, which the seeder draws after the events, and the canceled
\* stages after it have no warnings, no events and no KPI statistics.
C32_NoContentAfterCancel ==
  \A i \in Ids :
    ops[i].status = CANCELED =>
      /\ RowsOf(side.kpi, i) = {}
      /\ ops[i].re = NULL => RowsOf(side.warnings, i) = {} /\ RowsOf(side.events, i) = {}

-----------------------------------------------------------------------------
(* Properties of the status of rows during ticks                           *)

\* C33: process_active_operations completes a row only when now - real_start
\* has reached min_operation_duration, and the row it completes has
\* real_end - real_start >= min_operation_duration.
C33_MinDurationBeforeCompletion ==
  [][\A i \in Ids :
       (ops[i].status = ACTIVE /\ ops'[i].status = COMPLETED) =>
         /\ now - ops[i].rs >= min_operation_duration
         /\ ops'[i].re - ops'[i].rs >= min_operation_duration]_vars

\* a row completed by a tick exactly min_operation_duration after its real
\* start, before its planned end
C33_Witness ==
  \E i \in Ids :
    /\ ops[i].status = COMPLETED
    /\ ops[i].re - ops[i].rs = min_operation_duration
    /\ ops[i].re < ops[i].pe

\* C34: a step of a tick changes the status of a row only from PENDING to
\* ACTIVE or from ACTIVE to COMPLETED, and removes no row: every row stays
\* the row of its heat and process.
C34_StatusTransitions ==
  [][pc # "seed" =>
       /\ Len(ops') >= Len(ops)
       /\ \A i \in Ids :
            /\ ops'[i].heat = ops[i].heat
            /\ ops'[i].proc_cd = ops[i].proc_cd
            /\ \/ ops'[i].status = ops[i].status
               \/ ops[i].status = PENDING /\ ops'[i].status = ACTIVE
               \/ ops[i].status = ACTIVE /\ ops'[i].status = COMPLETED]_vars

\* a tick that has started a later stage while the table holds a canceled row
C34_Witness ==
  /\ mark.status
  /\ \E j \in Ids : ops[j].status = ACTIVE /\ ops[j].rs = now /\ StageIndex(ops[j].proc_cd) > 1
  /\ \E k \in Ids : ops[k].status = CANCELED

\* Ticks with new heats from a seeding at start_time = now: the seeder leaves
\* one heat whose first stage has just started.
InitHost ==
  /\ cfg = [pools |-> [BOF |-> 1, LF |-> 1, CCM |-> 1],
            span_past |-> 0, span_future |-> 0,
            step |-> MaxStep, max_now |-> HostMaxNow, new_heat |-> TRUE,
            max_heats |-> MaxHeats, conf |-> DefaultConfig]
  /\ InitCommon

SpecHost == InitHost /\ [][Next]_vars

\* C35: a device hosts one row at a time: no two rows of a device are ACTIVE
\* together, also right after create_new_heat has inserted an ACTIVE first
\* stage.
C35_OneActivePerDevice ==
  \A i \in Ids, j \in Ids :
    (i # j /\ ops[i].dev = ops[j].dev /\ ops[i].status = ACTIVE) => ops[j].status # ACTIVE

-----------------------------------------------------------------------------
(* Properties of find_slot: the max_rest ceiling (SpecSlot)                *)

\* C36: a call with enforce_max_rest = False and no latest_start returns a
\* slot, whatever windows the candidate devices hold (the device list of a
\* call is never empty).
C36_SlotWithoutCeiling ==
  (pc = "done" /\ ~ret.args.enforce_max_rest /\ ret.args.latest_start = NULL) =>
    /\ Len(ret.args.devices) > 0
    /\ ret.slot # NoSlot

\* such a call returns a start later than max_rest after the last window of
\* the device, which the ceiling would have refused
C36_Witness ==
  /\ Returned
  /\ ~ret.args.enforce_max_rest
  /\ ret.args.latest_start = NULL
  /\ CallWindows(ret.slot.device_no) # {}
  /\ \A w \in CallWindows(ret.slot.device_no) :
       w[2] + max_rest_duration_minutes < ret.slot.plan_start

\* C37: with enforce_max_rest = True a returned slot starts at most max_rest
\* after the end of the window before it on its device and ends at most
\* max_rest before the start of the window after it.
C37_MaxRestBound ==
  (Returned /\ ret.args.enforce_max_rest) =>
    LET W == CallWindows(ret.slot.device_no)
        before == {w \in W : w[2] <= ret.slot.plan_start}
        after == {w \in W : ret.slot.plan_end <= w[1]}
    IN /\ \A w \in before :
            (\A v \in before : v[2] <= w[2]) =>
              ret.slot.plan_start <= w[2] + max_rest_duration_minutes
       /\ \A w \in after :
            (\A v \in after : w[1] <= v[1]) =>
              w[1] <= ret.slot.plan_end + max_rest_duration_minutes

\* a slot returned between two windows of its device
C37_Witness ==
  /\ Returned
  /\ ret.args.enforce_max_rest
  /\ \E w \in CallWindows(ret.slot.device_no) : w[2] <= ret.slot.plan_start
  /\ \E w \in CallWindows(ret.slot.device_no) : ret.slot.plan_end <= w[1]

-----------------------------------------------------------------------------
(* find_slot over tables that hold CANCELED rows (SpecCancel)              *)

\* the rows of the first device: one or two, at least one of them CANCELED
CancelRowsFirst ==
  LET one == {SlotRow(Devices("BOF")[1], s, s + l, st) :
                s \in 0..SlotMaxStart, l \in 1..SlotMaxLen, st \in {COMPLETED, CANCELED}}
      some(t) == \E i \in 1..Len(t) : t[i].status = CANCELED
  IN {t \in {<<r>> : r \in one} : some(t)}
     \cup {p \in {<<a, b>> : a \in one, b \in one} :
             p[1].ps < p[2].ps /\ p[1].pe < p[2].pe /\ some(p)}

CancelTables == {a \o b : a \in CancelRowsFirst, b \in SlotRowsSecond}

InitCancel ==
  /\ cfg = [pools |-> [BOF |-> 2, LF |-> 1, CCM |-> 1],
            span_past |-> 0, span_future |-> 0,
            step |-> MaxStep, max_now |-> 0, new_heat |-> FALSE,
            max_heats |-> MaxHeats, conf |-> DefaultConfig]
  /\ ops \in CancelTables
  /\ now = 0
  /\ pc = "find"
  /\ queue = <<>>
  /\ seed = SeedStart(0)
  /\ ret = NoCall
  /\ mark = NoMark
  /\ side = NoSide

SpecCancel == InitCancel /\ [][NextSlot]_vars

\* the table with its CANCELED rows on no device
WithoutCanceled(table) ==
  [i \in 1..Len(table) |->
     IF table[i].status = CANCELED THEN [table[i] EXCEPT !.dev = NoDevice] ELSE table[i]]

\* C38: CANCELED rows do not occupy device time: what a call of find_slot
\* returns is what it can return on the table without its CANCELED rows.
C38_CanceledRowsFree ==
  pc = "done" =>
    LET a == ret.args
        free == find_slot(WithoutCanceled(ops), a.desired_start, a.latest_start, a.duration,
                          a.devices, a.exclude_operation_id, a.include_pending_plans,
                          a.enforce_max_rest)
    IN ret.slot \in (IF free = {} THEN {NoSlot} ELSE free)

-----------------------------------------------------------------------------
(* Properties of the transfer gap and of the seeded device pools           *)

\* C39: every row of a later stage that has a real start started at least
\* min_transfer_gap after the real end of the row of the stage before it.
C39_TransferGapKept ==
  \A i \in Ids, j \in Ids :
    (/\ ops[i].rs # NULL
     /\ ops[j].heat = ops[i].heat
     /\ StageIndex(ops[j].proc_cd) + 1 = StageIndex(ops[i].proc_cd)) =>
      /\ ops[j].re # NULL
      /\ ops[i].rs >= ops[j].re + min_transfer_gap_minutes

\* a later stage started by a tick exactly min_transfer_gap after the real
\* end of a predecessor that ended later than planned
C39_Witness ==
  \E i \in Ids, j \in Ids :
    /\ ops[j].heat = ops[i].heat
    /\ StageIndex(ops[j].proc_cd) + 1 = StageIndex(ops[i].proc_cd)
    /\ ops[j].status = COMPLETED
    /\ ops[j].re > ops[j].pe
    /\ ops[i].status = ACTIVE
    /\ ops[i].rs = ops[j].re + min_transfer_gap_minutes

\* The seeder alone over two first-stage devices and one device for each
\* later stage: both lineages use the later-stage device of index 0.
InitShare ==
  /\ cfg = [pools |-> [BOF |-> 2, LF |-> 1, CCM |-> 1],
            span_past |-> ShareSpanPast, span_future |-> ShareSpanFuture,
            step |-> MaxStep, max_now |-> ShareSpanPast, new_heat |-> FALSE,
            max_heats |-> MaxHeats, conf |-> DefaultConfig]
  /\ InitCommon

SpecShare == InitShare /\ [][NextSeed]_vars

\* C40: the seeded timeline has no overlapping windows on any device, also
\* when a later stage has fewer devices than the first stage and several
\* lineages use its device of index 0: of two non-canceled rows of a device
\* one ends before the other starts.
C40_SeededPoolsNoOverlap ==
  pc # "seed" =>
    \A i \in Ids, j \in Ids :
      (i < j /\ ops[i].dev = ops[j].dev /\ Live(i) /\ Live(j)) =>
        \/ WinEnd(ops[i]) <= WinStart(ops[j])
        \/ WinEnd(ops[j]) <= WinStart(ops[i])

====
